---------------------------- MODULE Spec2Model ----------------------------
(***************************************************************************)
(* Model of the credit-spread pipeline of                                  *)
(* src/tastytrade_data/find_tendies.py: the Black-Scholes calculator and   *)
(* find_deals_with_delta_analysis.                                         *)
(*                                                                         *)
(* Numbers.  Python floats are modelled in fixed point:                    *)
(*   - prices, strikes, credit, risk: cents (105.00 -> 10500);             *)
(*   - implied volatility, T, sqrt(T), ln, d1, d2, the normal cdf and      *)
(*     delta: ten-thousandths (0.30 -> 3000, scale ONE);                   *)
(*   - roi_percent and probability_of_profit: hundredths of a percent      *)
(*     (42.86 % -> 4286).                                                  *)
(* theta, gamma, vega and the 'explanation' text of a spread are not       *)
(* modelled: no branch of the pipeline reads them.                         *)
(***************************************************************************)
EXTENDS Integers, Sequences, FiniteSets, TLC

\* ------------------------------------------------------------------------
\* Fixed-point arithmetic
\* ------------------------------------------------------------------------

\* the fixed-point unit: 1.0
ONE == 100 * 100

Abs(x) == IF x < 0 THEN -x ELSE x

Max(a, b) == IF a >= b THEN a ELSE b

Min(a, b) == IF a <= b THEN a ELSE b

\* a / b rounded to the nearest integer (b > 0), as a float division rounds
Rdiv(a, b) ==
    IF a >= 0 THEN (2 * a + b) \div (2 * b)
    ELSE -((2 * (-a) + b) \div (2 * b))

\* x * y of two fixed-point numbers
Mul(x, y) == Rdiv(x * y, ONE)

\* sigma ** 2; the operand is first cut to thousandths to stay in 32 bits
Sq(x) == Rdiv((x \div 10) * (x \div 10), 100)

RECURSIVE IsqrtIn(_, _, _)
IsqrtIn(n, lo, hi) ==
    IF lo >= hi THEN lo
    ELSE LET mid == (lo + hi + 1) \div 2
         IN  IF mid * mid <= n THEN IsqrtIn(n, mid, hi)
             ELSE IsqrtIn(n, lo, mid - 1)

\* np.sqrt of a fixed-point number t >= 0
Sqrt(t) == IsqrtIn(t * ONE, 0, 40000)

\* np.log(S / K) for S, K > 0: 2 * atanh((S - K) / (S + K)), four terms
Ln(S, K) ==
    LET z  == Rdiv((S - K) * ONE, S + K)
        z2 == Mul(z, z)
        z3 == Mul(z, z2)
        z5 == Mul(z3, z2)
        z7 == Mul(z5, z2)
    IN  2 * (z + Rdiv(z3, 3) + Rdiv(z5, 5) + Rdiv(z7, 7))

\* scipy.stats.norm.cdf at 0.0, 0.1, ..., 4.0
PhiTable ==
    << 5000, 5398, 5793, 6179, 6554, 6915, 7257, 7580, 7881, 8159,
       8413, 8643, 8849, 9032, 9192, 9332, 9452, 9554, 9641, 9713,
       9772, 9821, 9861, 9893, 9918, 9938, 9953, 9965, 9974, 9981,
       9987, 9990, 9993, 9995, 9997, 9998, 9998, 9999, 9999, 10000, 10000 >>

\* norm.cdf for x >= 0: the table, interpolated linearly
PhiPos(x) ==
    IF x >= 4 * ONE THEN ONE
    ELSE LET k  == x \div 1000
             lo == PhiTable[k + 1]
             hi == PhiTable[k + 2]
         IN  lo + Rdiv((hi - lo) * (x - k * 1000), 1000)

\* scipy.stats.norm.cdf
NormCdf(x) == IF x >= 0 THEN PhiPos(x) ELSE ONE - PhiPos(-x)

\* ------------------------------------------------------------------------
\* BlackScholesCalculator
\* ------------------------------------------------------------------------

\* BlackScholesCalculator.__init__: risk_free_rate = 0.05
risk_free_rate == 500

\* d2 of probability_otm, for T > 0 and sigma > 0
D2(S, K, T, sigma) ==
    Rdiv((Ln(S, K) + Mul(risk_free_rate - Sq(sigma) \div 2, T)) * ONE,
         Mul(sigma, Sqrt(T)))

\* d1 of calculate_greeks, for T > 0 and sigma > 0
D1(S, K, T, r, sigma) ==
    Rdiv((Ln(S, K) + Mul(r + Sq(sigma) \div 2, T)) * ONE,
         Mul(sigma, Sqrt(T)))

\* np.exp(-x) for a small x >= 0: 1 - x + x^2/2 - x^3/6
ExpNeg(x) == ONE - x + Rdiv(Mul(x, x), 2) - Rdiv(Mul(Mul(x, x), x), 6)

\* mutant of black_scholes_call: the fallback is the intrinsic value of a put
black_scholes_put_fallback(S, K, T, r, sigma) ==
    IF T <= 0 THEN Max(K - S, 0)
    ELSE IF sigma <= 0 THEN Max(K - S, 0)
    ELSE 0

\* BlackScholesCalculator.black_scholes_call, in cents
black_scholes_call(S, K, T, r, sigma) ==
    IF T <= 0 THEN Max(S - K, 0)
    ELSE IF sigma <= 0 THEN Max(S - K, 0)
    ELSE LET d1 == D1(S, K, T, r, sigma)
             d2 == d1 - Mul(sigma, Sqrt(T))
             call_price ==
                 Rdiv(S * NormCdf(d1), ONE)
                 - Rdiv(Rdiv(K * ExpNeg(Mul(r, T)), ONE) * NormCdf(d2), ONE)
         IN  Max(call_price, 0)

\* mutant of OtmNow: at the money counts as out of the money
OtmOrAtNow(S, K, option_type) ==
    IF (option_type = "call" /\ S <= K) \/ (option_type = "put" /\ S >= K)
    THEN ONE ELSE 0

\* the moneyness fallback of probability_otm
OtmNow(S, K, option_type) ==
    IF (option_type = "call" /\ S < K) \/ (option_type = "put" /\ S > K)
    THEN ONE ELSE 0

\* mutant of probability_otm: the branches of option_type are swapped
probability_itm(S, K, T, sigma, option_type) ==
    IF T <= 0 THEN OtmNow(S, K, option_type)
    ELSE IF sigma <= 0 THEN OtmNow(S, K, option_type)
    ELSE IF option_type = "call" THEN NormCdf(D2(S, K, T, sigma))
    ELSE NormCdf(-D2(S, K, T, sigma))

\* BlackScholesCalculator.probability_otm
probability_otm(S, K, T, sigma, option_type) ==
    IF T <= 0 THEN OtmNow(S, K, option_type)
    ELSE IF sigma <= 0 THEN OtmNow(S, K, option_type)
    ELSE IF option_type = "call" THEN NormCdf(-D2(S, K, T, sigma))
    ELSE NormCdf(D2(S, K, T, sigma))

\* mutant of calculate_greeks: the delta of a put loses its sign
calculate_greeks_unsigned(S, K, T, r, sigma, option_type) ==
    IF T <= 0 THEN [delta |-> 0]
    ELSE IF sigma <= 0 THEN [delta |-> 0]
    ELSE IF option_type = "call" THEN [delta |-> NormCdf(D1(S, K, T, r, sigma))]
    ELSE [delta |-> NormCdf(-D1(S, K, T, r, sigma))]

\* BlackScholesCalculator.calculate_greeks (delta)
calculate_greeks(S, K, T, r, sigma, option_type) ==
    IF T <= 0 THEN [delta |-> 0]
    ELSE IF sigma <= 0 THEN [delta |-> 0]
    ELSE IF option_type = "call" THEN [delta |-> NormCdf(D1(S, K, T, r, sigma))]
    ELSE [delta |-> -NormCdf(-D1(S, K, T, r, sigma))]

\* ------------------------------------------------------------------------
\* find_deals_with_delta_analysis: thresholds
\* ------------------------------------------------------------------------

\* 'strike_price' difference above which a pair is skipped: 5 (dollars)
MaxWidth == 500

\* time_to_exp = days_to_exp / 365.0
DaysPerYear == 365

\* roi_percent <= 10 is rejected
RoiThreshold == 1000

\* prob_profit_bs <= 66 is rejected
PopThreshold == 6600

\* the loose delta list holds -0.5 <= spread_delta <= 0.5
LooseDelta == 5000

\* the strict delta list holds -0.2 <= spread_delta <= 0.2
StrictDelta == 2000

\* delta_stats counts spread_delta < -0.1 as negative
NegativeDelta == 1000

\* best_deals = all_spreads_no_delta[:25]
TopN == 25

\* ------------------------------------------------------------------------
\* Sequences
\* ------------------------------------------------------------------------

Range(s) == { s[k] : k \in DOMAIN s }

RECURSIVE Flatten(_)
Flatten(ss) == IF ss = << >> THEN << >> ELSE Head(ss) \o Flatten(Tail(ss))

\* s with x put behind the last element whose key is <= x's (list.sort is
\* stable)
RECURSIVE InsertByStrike(_, _)
InsertByStrike(s, x) ==
    IF s = << >> THEN << x >>
    ELSE IF s[Len(s)].strike_price <= x.strike_price THEN Append(s, x)
    ELSE Append(InsertByStrike(SubSeq(s, 1, Len(s) - 1), x), s[Len(s)])

\* list.sort(key=lambda x: x['strike_price'])
RECURSIVE SortByStrike(_)
SortByStrike(s) ==
    IF s = << >> THEN << >>
    ELSE InsertByStrike(SortByStrike(SubSeq(s, 1, Len(s) - 1)), s[Len(s)])

RECURSIVE InsertByPoPAscending(_, _)
InsertByPoPAscending(s, x) ==
    IF s = << >> THEN << x >>
    ELSE IF s[Len(s)].probability_of_profit <= x.probability_of_profit
         THEN Append(s, x)
    ELSE Append(InsertByPoPAscending(SubSeq(s, 1, Len(s) - 1), x), s[Len(s)])

\* mutant of SortByPoP: the sort without reverse=True
RECURSIVE SortByPoPAscending(_)
SortByPoPAscending(s) ==
    IF s = << >> THEN << >>
    ELSE InsertByPoPAscending(SortByPoPAscending(SubSeq(s, 1, Len(s) - 1)),
                              s[Len(s)])

RECURSIVE InsertByPoP(_, _)
InsertByPoP(s, x) ==
    IF s = << >> THEN << x >>
    ELSE IF s[Len(s)].probability_of_profit >= x.probability_of_profit
         THEN Append(s, x)
    ELSE Append(InsertByPoP(SubSeq(s, 1, Len(s) - 1), x), s[Len(s)])

\* list.sort(key=lambda x: x['probability_of_profit'], reverse=True): stable,
\* equal keys keep their order
RECURSIVE SortByPoP(_)
SortByPoP(s) ==
    IF s = << >> THEN << >>
    ELSE InsertByPoP(SortByPoP(SubSeq(s, 1, Len(s) - 1)), s[Len(s)])

\* s[:n]
Prefix(s, n) == SubSeq(s, 1, Min(n, Len(s)))

\* ------------------------------------------------------------------------
\* Input datasets (step2_options_contracts.json, step3_risk_analysis.json,
\* step4_market_prices.json)
\* ------------------------------------------------------------------------

\* longest option chain of the exhaustive inputs
MaxContracts == 3

\* One option of a chain together with what the risk and the quote dataset
\* hold for it
Leg(strike, type, days, has_quote, bid, ask, has_greek, iv) ==
    [ strike_price |-> strike, contract_type |-> type,
      days_until_expires |-> days,
      has_quote |-> has_quote, bid |-> bid, ask |-> ask,
      has_greek |-> has_greek, iv |-> iv,
      contract_lacks |-> {}, greek_lacks |-> {}, quote_lacks |-> {} ]

\* the leg whose contract, Greek or quote record ('part') lacks the key 'field'
Lacking(leg, part, field) == [ leg EXCEPT ![part] = { field } ]

\* a JSON object without some of its keys
Without(rec, fields) == [ f \in DOMAIN rec \ fields |-> rec[f] ]

\* plain out-of-the-money calls
LegA == Leg(10500, "CALL", 30, TRUE, 150, 160, TRUE, 3000)
LegB == Leg(10800, "CALL", 30, TRUE, 100, 60, TRUE, 3000)
LegD == Leg(11300, "CALL", 30, TRUE, 50, 40, TRUE, 63000)

CoreLegs == { LegA, LegB, LegD }

Legs ==
    CoreLegs \cup
    { Leg(11000, "CALL", 30, TRUE, 0, 140, TRUE, 10000),    \* no bid
      Leg(10500, "CALL", 30, TRUE, 150, 60, TRUE, 63000),   \* a second 105 call
      Leg(10200, "CALL", 30, TRUE, 250, 240, TRUE, 3000),   \* near the money
      Leg(10000, "CALL", 30, TRUE, 300, 290, TRUE, 3000),   \* at the money
      Leg(10800, "PUT", 30, TRUE, 100, 60, TRUE, 3000),
      Leg(10800, "CALL", 30, FALSE, 0, 0, TRUE, 3000),      \* no quote record
      Leg(10800, "CALL", 30, TRUE, 100, 60, FALSE, 0),      \* no Greek record
      Leg(10800, "CALL", 0, TRUE, 100, 0, TRUE, 3000) }     \* expires today, no ask

\* every sequence over S of length 0..n
SeqsUpTo(S, n) == UNION { [1..k -> S] : k \in 0..n }

Contract(leg, sym) ==
    Without([ streamer_symbol |-> sym, strike_price |-> leg.strike_price,
              contract_type |-> leg.contract_type,
              days_until_expires |-> leg.days_until_expires ],
            leg.contract_lacks)

\* one expiration: its date, the chain's legs, the first symbol minus one
Chain(date, legs, base) == [ exp_date |-> date, legs |-> legs, base |-> base ]

Symbols(chain) == [ p \in 1..Len(chain.legs) |-> chain.base + p ]

ChainContracts(chain) ==
    [ p \in 1..Len(chain.legs) |-> Contract(chain.legs[p], chain.base + p) ]

ChainGreeks(chain) ==
    LET present == SelectSeq(Symbols(chain),
                             LAMBDA y : chain.legs[y - chain.base].has_greek)
    IN  [ p \in 1..Len(present) |->
            Without([ contract_name |-> present[p],
                      implied_volatility |-> chain.legs[present[p] - chain.base].iv ],
                    chain.legs[present[p] - chain.base].greek_lacks) ]

ChainQuotes(chain) ==
    LET present == SelectSeq(Symbols(chain),
                             LAMBDA y : chain.legs[y - chain.base].has_quote)
    IN  [ p \in 1..Len(present) |->
            Without([ contract_name |-> present[p],
                      what_buyers_pay |-> chain.legs[present[p] - chain.base].bid,
                      what_sellers_want |-> chain.legs[present[p] - chain.base].ask ],
                    chain.legs[present[p] - chain.base].quote_lacks) ]

\* a company of the datasets: its name, spot price and chains
Company(name, price, chains) == [ company |-> name, price |-> price, chains |-> chains ]

\* the three datasets for a sequence of companies
Dataset(companies) ==
    [ options |->
        [ c \in 1..Len(companies) |->
            [ company |-> companies[c].company,
              current_stock_price |-> companies[c].price,
              expiration_dates |->
                [ e \in 1..Len(companies[c].chains) |->
                    [ exp_date |-> companies[c].chains[e].exp_date,
                      contracts |-> ChainContracts(companies[c].chains[e]) ] ] ] ],
      risk |->
        [ c \in 1..Len(companies) |->
            [ company |-> companies[c].company,
              greeks |-> Flatten([ e \in 1..Len(companies[c].chains) |->
                                     ChainGreeks(companies[c].chains[e]) ]) ] ],
      prices |->
        [ c \in 1..Len(companies) |->
            [ company |-> companies[c].company,
              prices |-> Flatten([ e \in 1..Len(companies[c].chains) |->
                                     ChainQuotes(companies[c].chains[e]) ]) ] ] ]

\* one company, one expiration, any chain of up to MaxContracts legs
OneChainInputs ==
    { Dataset(<< Company("AAA", 10000, << Chain("e1", legs, 100) >>) >>) :
        legs \in SeqsUpTo(Legs, MaxContracts) }

\* two expirations of one company, chains of plain calls
TwoExpirationInputs ==
    { Dataset(<< Company("AAA", 10000,
                         << Chain("e1", l1, 100), Chain("e2", l2, 200) >>) >>) :
        l1 \in SeqsUpTo(CoreLegs, MaxContracts - 1),
        l2 \in SeqsUpTo(CoreLegs, MaxContracts - 1) }

\* two companies (the second trades at 106), chains of plain calls
TwoCompanyInputs ==
    { Dataset(<< Company("AAA", 10000, << Chain("e1", l1, 100) >>),
                 Company("BBB", 10600, << Chain("e1", l2, 200) >>) >>) :
        l1 \in SeqsUpTo(CoreLegs, MaxContracts - 1),
        l2 \in SeqsUpTo(CoreLegs, MaxContracts - 1) }

\* a long chain of calls one dollar apart, from 105 up
LongChain(n) ==
    [ p \in 1..n |-> Leg(10400 + 100 * p, "CALL", 30, TRUE, 150, 130, TRUE, 3000) ]

\* chains long enough to yield TopN and TopN + 1 spreads
LongChainInputs ==
    { Dataset(<< Company("AAA", 10000, << Chain("e1", LongChain(n), 100) >>) >>) :
        n \in { TopN + 1, TopN + 2 } }

\* a leg, and the leg with one key missing from one of its three records
Malformed(leg) ==
    { leg }
    \cup { Lacking(leg, "contract_lacks", f) :
             f \in { "streamer_symbol", "strike_price", "contract_type",
                     "days_until_expires" } }
    \cup { Lacking(leg, "greek_lacks", f) :
             f \in { "contract_name", "implied_volatility" } }
    \cup { Lacking(leg, "quote_lacks", f) :
             f \in { "contract_name", "what_buyers_pay", "what_sellers_want" } }

\* the 105 and the 108 call with at most one malformed record each, alone or
\* followed by a PUT without strike_price
MalformedInputs ==
    { Dataset(<< Company("AAA", 10000, << Chain("e1", << l1, l2 >> \o rest, 100) >>) >>) :
        l1 \in Malformed(LegA), l2 \in Malformed(LegB),
        rest \in { << >>,
                   << Lacking(Leg(10800, "PUT", 30, TRUE, 100, 60, TRUE, 3000),
                              "contract_lacks", "strike_price") >> } }

\* chains of worked examples
ExampleChains ==
    { << LegA, LegB >>,                                  \* credit 0.90 on width 3
      << Leg(10500, "CALL", 30, TRUE, 260, 270, TRUE, 3000),
         Leg(11000, "CALL", 30, TRUE, 70, 60, TRUE, 3000) >>,   \* credit 2 on width 5
      << Leg(10500, "CALL", 30, TRUE, 150, 160, TRUE, 2000),
         Leg(10800, "CALL", 30, TRUE, 100, 60, TRUE, 4000) >>,  \* IVs 0.2 and 0.4
      << Leg(10500, "CALL", 30, TRUE, 150, 60, TRUE, 63000), LegB >>,   \* bullish
      << LegA, LegB, LegD >>,                            \* neutral, then bearish
      << Leg(10500, "CALL", 30, TRUE, 150, 160, TRUE, 5134),
         Leg(10800, "CALL", 30, TRUE, 100, 60, TRUE, 2980) >>,  \* spread delta +0.2
      << Leg(10800, "CALL", 30, TRUE, 100, 60, TRUE, 3000),
         Leg(11000, "CALL", 30, TRUE, 70, 60, TRUE, 8960) >> }  \* spread delta -0.2

\* two expirations of one company, each an example chain
ExampleInputs ==
    { Dataset(<< Company("AAA", 10000,
                         << Chain("e1", c1, 100), Chain("e2", c2, 200) >>) >>) :
        c1 \in ExampleChains, c2 \in ExampleChains }

Inputs ==
    OneChainInputs \cup TwoExpirationInputs \cup TwoCompanyInputs
    \cup LongChainInputs \cup MalformedInputs \cup ExampleInputs

\* the files find_deals_with_delta_analysis opens
FileNames ==
    { "step1_stock_prices.json", "step2_options_contracts.json",
      "step3_risk_analysis.json", "step4_market_prices.json" }

\* ------------------------------------------------------------------------
\* find_deals_with_delta_analysis: state
\* ------------------------------------------------------------------------

VARIABLES
    files,                     \* the input files that exist
    options_data,              \* step2_options_contracts.json: 'options_by_company'
    risk_data,                 \* step3_risk_analysis.json: 'risk_by_company'
    price_data,                \* step4_market_prices.json: 'prices_by_company'
    greek_lookup,              \* contract_name -> Greek record
    price_lookup,              \* contract_name -> quote record
    all_spreads_no_delta,
    all_spreads_loose_delta,
    all_spreads_strict_delta,
    delta_stats,
    ci,                        \* position of 'for company' (1-based)
    ei,                        \* position of 'for exp_date' (1-based)
    calls_above_price,         \* the sorted OTM calls of the current expiration
    i,                         \* the index of 'for i in range(...)'
    trail,                     \* every (short_call, long_call) the loop took, with
                               \* the place where its iteration ended
    result,                    \* << >>, or << the document written >>
    previous,                  \* << >>, or << the document of the run before >>
    pc,
    bs_call,                   \* the method of bs_calc being called and its arguments
    bs_return,                 \* << >>, or << the value it returned >>
    provider,                  \* the class of the market data provider
    _connected,                \* self._connected
    ib,                        \* IBKRProvider: self.ib, the IB() client
    session,                   \* TastyTradeProvider: self.session
    frame,                     \* the provider method running, its position and
                               \* its local variables
    outcome,                   \* << >>, or << how the last call ended >>
    calls,                     \* the calls made on the provider so far
    master                     \* master.py: run_complete_analysis, its position,
                               \* the scripts it started and how they ended

vars ==
    << files, options_data, risk_data, price_data, greek_lookup, price_lookup,
       all_spreads_no_delta, all_spreads_loose_delta, all_spreads_strict_delta,
       delta_stats, ci, ei, calls_above_price, i, trail, result, previous, pc,
       bs_call, bs_return,
       provider, _connected, ib, session, frame, outcome, calls, master >>

\* the variables of find_deals_with_delta_analysis
pipelineVars ==
    << files, options_data, risk_data, price_data, greek_lookup, price_lookup,
       all_spreads_no_delta, all_spreads_loose_delta, all_spreads_strict_delta,
       delta_stats, ci, ei, calls_above_price, i, trail, result, previous, pc >>

\* the variables of a direct call of a BlackScholesCalculator method
calculatorVars == << bs_call, bs_return >>

\* the variables of a market data provider and of the call made on it
providerVars == << provider, _connected, ib, session, frame, outcome, calls >>

\* a step of the pipeline leaves everything else alone
PipelineOnly == UNCHANGED << calculatorVars, providerVars, master >>

\* a step of the calculator leaves everything else alone
CalculatorOnly == UNCHANGED << pipelineVars, providerVars, master >>

\* a step of a provider leaves everything else alone
ProviderOnly == UNCHANGED << pipelineVars, calculatorVars, master >>

\* a step of run_complete_analysis leaves everything else alone
MasterOnly == UNCHANGED << pipelineVars, calculatorVars, providerVars >>

\* run_complete_analysis is not running
MasterIdle == master = [ at |-> "idle" ]

\* no method of the calculator is being called directly
CalculatorIdle == bs_call = [ method |-> "none" ] /\ bs_return = << >>

\* no provider has been constructed
ProviderIdle ==
    /\ provider = "none"
    /\ _connected = FALSE
    /\ ib = [ isConnected |-> FALSE, mktData |-> {}, handlers |-> {} ]
    /\ session = "None"
    /\ frame = << >>
    /\ outcome = << >>
    /\ calls = 0

\* ------------------------------------------------------------------------
\* find_deals_with_delta_analysis: the steps of one iteration
\* ------------------------------------------------------------------------

\* the dict built by 'lookup[rec["contract_name"]] = rec' over the lists of
\* all companies: a later record replaces an earlier one of the same name
Lookup(lists) ==
    LET recs == Flatten(lists)
    IN  [ name \in { recs[k].contract_name : k \in DOMAIN recs } |->
            recs[CHOOSE k \in DOMAIN recs :
                    /\ recs[k].contract_name = name
                    /\ \A m \in DOMAIN recs :
                          recs[m].contract_name = name => m <= k] ]

IsCall(c) == c.contract_type = "CALL"

\* mutant of IsAbovePrice: strike_price >= current_stock_price
IsAtOrAbovePrice(c, current_stock_price) == c.strike_price >= current_stock_price

IsAbovePrice(c, current_stock_price) == c.strike_price > current_stock_price

\* calls, then calls_above_price, then its sort by strike
CallsAbovePrice(contracts, current_stock_price) ==
    SortByStrike(
        SelectSeq(SelectSeq(contracts, IsCall),
                  LAMBDA c : IsAbovePrice(c, current_stock_price)))

\* mutant of TooWide: a width of exactly 5 is skipped too
TooWideOrEqual(short_call, long_call) ==
    long_call.strike_price - short_call.strike_price >= MaxWidth

\* long_call['strike_price'] - short_call['strike_price'] > 5
TooWide(short_call, long_call) ==
    long_call.strike_price - short_call.strike_price > MaxWidth

\* a symbol is in neither lookup
LookupMissing(short_symbol, long_symbol, prices, greeks) ==
    \/ short_symbol \notin DOMAIN prices
    \/ long_symbol \notin DOMAIN prices
    \/ short_symbol \notin DOMAIN greeks
    \/ long_symbol \notin DOMAIN greeks

\* mutant of AvgIv: the long leg's IV is lost
ShortIvOnly(short_iv, long_iv) == short_iv

\* (short_iv + long_iv) / 2
AvgIv(short_iv, long_iv) == Rdiv(short_iv + long_iv, 2)

\* days_to_exp / 365.0
TimeToExp(days_to_exp) == Rdiv(days_to_exp * ONE, DaysPerYear)

\* mutant of Expired: '<' for '<='
ExpiredBelowZero(time_to_exp) == time_to_exp < 0

\* time_to_exp <= 0
Expired(time_to_exp) == time_to_exp <= 0

\* short_bid <= 0 or long_ask <= 0
NoQuote(short_bid, long_ask) == short_bid <= 0 \/ long_ask <= 0

\* short_bid - long_ask
MarketCredit(short_bid, long_ask) == short_bid - long_ask

\* market_credit <= 0
NoCredit(market_credit) == market_credit <= 0

\* a probability as hundredths of a percent
Percent(p) == Rdiv(p * 100 * 100, ONE)

\* bs_calc.probability_otm(current_stock_price, short strike, time_to_exp,
\* avg_iv, 'call') * 100
ProbProfit(current_stock_price, short_strike, time_to_exp, avg_iv) ==
    Percent(probability_otm(current_stock_price, short_strike, time_to_exp,
                            avg_iv, "call"))

\* mutant of MaxRisk: the credit is added
WidthPlusCredit(strike_width, market_credit) == strike_width + market_credit

\* strike_width - market_credit
MaxRisk(strike_width, market_credit) == strike_width - market_credit

\* (market_credit / max_risk) * 100 if max_risk > 0 else 0
RoiPercent(market_credit, max_risk) ==
    IF max_risk > 0 THEN Rdiv(market_credit * 100 * 100, max_risk) ELSE 0

\* short_greeks['delta'] - long_greeks['delta']
SpreadDelta(current_stock_price, short_strike, long_strike, time_to_exp, short_iv, long_iv) ==
    calculate_greeks(current_stock_price, short_strike, time_to_exp,
                     risk_free_rate, short_iv, "call").delta
    - calculate_greeks(current_stock_price, long_strike, time_to_exp,
                       risk_free_rate, long_iv, "call").delta

\* the counter of delta_stats that takes spread_delta
StatsBand(spread_delta) ==
    IF spread_delta < -NegativeDelta THEN "negative_deltas"
    ELSE IF -StrictDelta <= spread_delta /\ spread_delta <= StrictDelta
         THEN "neutral_deltas"
    ELSE "positive_deltas"

\* mutant of Rejected: 'and' for 'or'
RejectedWhenBothFail(roi_percent, prob_profit_bs) ==
    roi_percent <= RoiThreshold /\ prob_profit_bs <= PopThreshold

\* mutant of Rejected: the ROI test is lost
RejectedOnPopOnly(roi_percent, prob_profit_bs) ==
    prob_profit_bs <= PopThreshold

\* roi_percent <= 10 or prob_profit_bs <= 66
Rejected(roi_percent, prob_profit_bs) ==
    roi_percent <= RoiThreshold \/ prob_profit_bs <= PopThreshold

\* -0.5 <= spread_delta <= 0.5
InLooseBand(spread_delta) ==
    -LooseDelta <= spread_delta /\ spread_delta <= LooseDelta

\* mutant of InStrictBand: the upper bound is lost
InStrictBandFromBelow(spread_delta) == -StrictDelta <= spread_delta

\* -0.2 <= spread_delta <= 0.2
InStrictBand(spread_delta) ==
    -StrictDelta <= spread_delta /\ spread_delta <= StrictDelta

\* mutant of DeltaInterpretation: the band is open at 0.2
NeutralBelowStrictDelta(spread_delta) ==
    IF Abs(spread_delta) < StrictDelta THEN "Neutral"
    ELSE IF spread_delta > 0 THEN "Bullish"
    ELSE "Bearish"

\* 'Neutral' if abs(spread_delta) <= 0.2 else ('Bullish' if > 0.2 else 'Bearish')
DeltaInterpretation(spread_delta) ==
    IF Abs(spread_delta) <= StrictDelta THEN "Neutral"
    ELSE IF spread_delta > StrictDelta THEN "Bullish"
    ELSE "Bearish"

\* what an iteration reads from the lookups once both legs are found
Joined(short_call, long_call, prices, greeks) ==
    LET short_symbol == short_call.streamer_symbol
        long_symbol  == long_call.streamer_symbol
        short_iv     == greeks[short_symbol].implied_volatility
        long_iv      == greeks[long_symbol].implied_volatility
        days_to_exp  == short_call.days_until_expires
        short_bid    == prices[short_symbol].what_buyers_pay
        long_ask     == prices[long_symbol].what_sellers_want
    IN  [ short_iv |-> short_iv,
          long_iv |-> long_iv,
          avg_iv |-> AvgIv(short_iv, long_iv),
          days_to_exp |-> days_to_exp,
          time_to_exp |-> TimeToExp(days_to_exp),
          short_bid |-> short_bid,
          long_ask |-> long_ask,
          market_credit |-> MarketCredit(short_bid, long_ask) ]

\* what an iteration computes after the credit check
Metrics(company, current_stock_price, short_call, long_call, j) ==
    LET strike_width == long_call.strike_price - short_call.strike_price
        max_risk     == MaxRisk(strike_width, j.market_credit)
    IN  [ company |-> company,
          short_strike |-> short_call.strike_price,
          long_strike |-> long_call.strike_price,
          days_to_expiration |-> j.days_to_exp,
          credit_collected |-> j.market_credit,
          max_risk |-> max_risk,
          roi_percent |-> RoiPercent(j.market_credit, max_risk),
          probability_of_profit |->
              ProbProfit(current_stock_price, short_call.strike_price,
                         j.time_to_exp, j.avg_iv),
          current_stock_price |-> current_stock_price,
          avg_implied_volatility |-> j.avg_iv,
          spread_delta |->
              SpreadDelta(current_stock_price, short_call.strike_price,
                          long_call.strike_price, j.time_to_exp,
                          j.short_iv, j.long_iv) ]

\* the 'spread' dict of an accepted pair
SpreadOf(m) ==
    [ f \in DOMAIN m \cup { "delta_interpretation" } |->
        IF f = "delta_interpretation" THEN DeltaInterpretation(m.spread_delta)
        ELSE m[f] ]

\* delta_stats after spread_delta is recorded
Track(stats, spread_delta) ==
    [ stats EXCEPT !.deltas_seen = Append(@, spread_delta),
                   ![StatsBand(spread_delta)] = @ + 1 ]

\* mutant of BestDeals: the whole list, no slice
WholeList(spreads) == spreads

\* result['best_deals']
BestDeals(spreads) == Prefix(spreads, TopN)

\* the values datetime.now().isoformat() can take
Timestamps == { "2025-01-01T09:30:00.000001", "2025-01-01T09:30:00.000002" }

\* the document saved as step5_delta_analysis.json
ResultOf(no_delta, loose_delta, strict_delta, now) ==
    [ step |-> 5,
      filters_used |-> "ROI > 10%, PoP > 66%, NO delta filter",
      total_opportunities |-> Len(no_delta),
      delta_analysis |->
          [ no_delta_filter |-> Len(no_delta),
            loose_delta_filter |-> Len(loose_delta),
            strict_delta_filter |-> Len(strict_delta) ],
      best_deals |-> BestDeals(no_delta),
      timestamp |-> now ]

\* ------------------------------------------------------------------------
\* find_deals_with_delta_analysis: the run
\* ------------------------------------------------------------------------

\* a dict has the key
Has(rec, key) == key \in DOMAIN rec

\* every record of the lists has 'contract_name'
Named(lists) ==
    \A c \in DOMAIN lists : \A k \in DOMAIN lists[c] : Has(lists[c][k], "contract_name")

\* the two list comprehensions over 'contracts' find the keys they read:
\* contract_type of every contract, strike_price of every CALL
Readable(contracts) ==
    \A k \in DOMAIN contracts :
        /\ Has(contracts[k], "contract_type")
        /\ IsCall(contracts[k]) => Has(contracts[k], "strike_price")

Init ==
    /\ \E d \in Inputs :
          /\ options_data = d.options
          /\ risk_data = d.risk
          /\ price_data = d.prices
          /\ \/ files = FileNames
             \/ /\ d \in TwoCompanyInputs
                /\ Len(d.options[1].expiration_dates[1].contracts) = 0
                /\ Len(d.options[2].expiration_dates[1].contracts) = 0
                /\ \E f \in FileNames : files = FileNames \ { f }
    /\ greek_lookup = << >>
    /\ price_lookup = << >>
    /\ all_spreads_no_delta = << >>
    /\ all_spreads_loose_delta = << >>
    /\ all_spreads_strict_delta = << >>
    /\ delta_stats = [ deltas_seen |-> << >>, negative_deltas |-> 0,
                       neutral_deltas |-> 0, positive_deltas |-> 0 ]
    /\ ci = 0
    /\ ei = 0
    /\ calls_above_price = << >>
    /\ i = 0
    /\ trail = << >>
    /\ result = << >>
    /\ previous = << >>
    /\ pc = "load"
    /\ CalculatorIdle
    /\ ProviderIdle
    /\ MasterIdle

\* the locals of the loops
company == options_data[ci].company

current_stock_price == options_data[ci].current_stock_price

short_call == calls_above_price[i + 1]

long_call == calls_above_price[i + 2]

short_symbol == short_call.streamer_symbol

long_symbol == long_call.streamer_symbol

time_to_exp == TimeToExp(short_call.days_until_expires)

joined == Joined(short_call, long_call, price_lookup, greek_lookup)

metrics == Metrics(company, current_stock_price, short_call, long_call, joined)

\* mutant of InLoop: range(len(calls_above_price) - 2)
InLoopOneShort == pc = "pair" /\ i < Len(calls_above_price) - 2

\* 'for i in range(len(calls_above_price) - 1)' has a next value
InLoop == pc = "pair" /\ i < Len(calls_above_price) - 1

PastWidth == InLoop /\ ~TooWide(short_call, long_call)

\* short_call['streamer_symbol'] and long_call['streamer_symbol'] are there
HasSymbols ==
    /\ PastWidth
    /\ Has(short_call, "streamer_symbol")
    /\ Has(long_call, "streamer_symbol")

PastJoin ==
    /\ HasSymbols
    /\ ~LookupMissing(short_symbol, long_symbol, price_lookup, greek_lookup)

\* both Greek records have 'implied_volatility'
HasIvs ==
    /\ PastJoin
    /\ Has(greek_lookup[short_symbol], "implied_volatility")
    /\ Has(greek_lookup[long_symbol], "implied_volatility")

\* short_call['days_until_expires'] is there
HasDays == HasIvs /\ Has(short_call, "days_until_expires")

PastExpiry == HasDays /\ ~Expired(time_to_exp)

\* the short quote has 'what_buyers_pay' and the long quote 'what_sellers_want'
HasPrices ==
    /\ PastExpiry
    /\ Has(price_lookup[short_symbol], "what_buyers_pay")
    /\ Has(price_lookup[long_symbol], "what_sellers_want")

PastQuote == HasPrices /\ ~NoQuote(joined.short_bid, joined.long_ask)

PastCredit == PastQuote /\ ~NoCredit(joined.market_credit)

\* the iteration ends at 'stage' and the loop goes on
Continue(stage) ==
    /\ trail' = Append(trail, [ ci |-> ci, ei |-> ei, short_call |-> short_call,
                                long_call |-> long_call, stage |-> stage ])
    /\ i' = i + 1
    /\ PipelineOnly
    /\ UNCHANGED << files, options_data, risk_data, price_data, greek_lookup,
                    price_lookup, ci, ei, calls_above_price, result, previous, pc >>

\* a subscript of the iteration raises KeyError
RaiseKeyError ==
    /\ trail' = Append(trail, [ ci |-> ci, ei |-> ei, short_call |-> short_call,
                                long_call |-> long_call, stage |-> "KeyError" ])
    /\ pc' = "KeyError"
    /\ PipelineOnly
    /\ UNCHANGED << files, options_data, risk_data, price_data, greek_lookup,
                    price_lookup, all_spreads_no_delta, all_spreads_loose_delta,
                    all_spreads_strict_delta, delta_stats, ci, ei,
                    calls_above_price, i, result, previous >>

ListsUnchanged ==
    UNCHANGED << all_spreads_no_delta, all_spreads_loose_delta,
                 all_spreads_strict_delta >>

LoopUnchanged == UNCHANGED << calls_above_price, i, trail >>

InputsUnchanged == UNCHANGED << files, options_data, risk_data, price_data >>

\* the four files are opened and read
LoadData ==
    /\ pc = "load"
    /\ files = FileNames
    /\ pc' = "lookups"
    /\ PipelineOnly /\ InputsUnchanged /\ UNCHANGED previous /\ ListsUnchanged /\ LoopUnchanged
    /\ UNCHANGED << greek_lookup, price_lookup, delta_stats, ci, ei, result >>

\* open() of a file that does not exist: FileNotFoundError
LoadDataRaises ==
    /\ pc = "load"
    /\ files # FileNames
    /\ pc' = "FileNotFoundError"
    /\ PipelineOnly /\ InputsUnchanged /\ UNCHANGED previous /\ ListsUnchanged /\ LoopUnchanged
    /\ UNCHANGED << greek_lookup, price_lookup, delta_stats, ci, ei, result >>

\* greek['contract_name'] or price['contract_name'] of a record without
\* that key: KeyError
CreateLookupsRaises ==
    /\ pc = "lookups"
    /\ ~(/\ Named([ c \in DOMAIN risk_data |-> risk_data[c].greeks ])
         /\ Named([ c \in DOMAIN price_data |-> price_data[c].prices ]))
    /\ pc' = "KeyError"
    /\ PipelineOnly /\ InputsUnchanged /\ UNCHANGED previous /\ ListsUnchanged /\ LoopUnchanged
    /\ UNCHANGED << greek_lookup, price_lookup, delta_stats, ci, ei, result >>

\* greek_lookup and price_lookup are built
CreateLookups ==
    /\ pc = "lookups"
    /\ Named([ c \in DOMAIN risk_data |-> risk_data[c].greeks ])
    /\ Named([ c \in DOMAIN price_data |-> price_data[c].prices ])
    /\ greek_lookup' = Lookup([ c \in DOMAIN risk_data |-> risk_data[c].greeks ])
    /\ price_lookup' = Lookup([ c \in DOMAIN price_data |-> price_data[c].prices ])
    /\ ci' = 1
    /\ pc' = "company"
    /\ PipelineOnly /\ InputsUnchanged /\ UNCHANGED previous /\ ListsUnchanged /\ LoopUnchanged
    /\ UNCHANGED << delta_stats, ei, result >>

\* 'for company, company_options in ...items()' takes the next company
BeginCompany ==
    /\ pc = "company"
    /\ ci <= Len(options_data)
    /\ ei' = 1
    /\ pc' = "expiration"
    /\ PipelineOnly /\ InputsUnchanged /\ UNCHANGED previous /\ ListsUnchanged /\ LoopUnchanged
    /\ UNCHANGED << greek_lookup, price_lookup, delta_stats, ci, result >>

\* the companies are exhausted
EndCompanies ==
    /\ pc = "company"
    /\ ci > Len(options_data)
    /\ pc' = "sort"
    /\ PipelineOnly /\ InputsUnchanged /\ UNCHANGED previous /\ ListsUnchanged /\ LoopUnchanged
    /\ UNCHANGED << greek_lookup, price_lookup, delta_stats, ci, ei, result >>

\* 'for exp_date, exp_data in ...items()' takes the next expiration and
\* selects and sorts its calls
BeginExpiration ==
    /\ pc = "expiration"
    /\ ei <= Len(options_data[ci].expiration_dates)
    /\ Readable(options_data[ci].expiration_dates[ei].contracts)
    /\ calls_above_price' =
          CallsAbovePrice(options_data[ci].expiration_dates[ei].contracts,
                          current_stock_price)
    /\ i' = 0
    /\ pc' = "pair"
    /\ PipelineOnly /\ InputsUnchanged /\ UNCHANGED previous /\ ListsUnchanged
    /\ UNCHANGED << greek_lookup, price_lookup, delta_stats, ci, ei, trail, result >>

\* c['contract_type'] or c['strike_price'] of a contract without that key:
\* KeyError
BeginExpirationRaises ==
    /\ pc = "expiration"
    /\ ei <= Len(options_data[ci].expiration_dates)
    /\ ~Readable(options_data[ci].expiration_dates[ei].contracts)
    /\ pc' = "KeyError"
    /\ PipelineOnly /\ InputsUnchanged /\ UNCHANGED previous /\ ListsUnchanged /\ LoopUnchanged
    /\ UNCHANGED << greek_lookup, price_lookup, delta_stats, ci, ei, result >>

\* the expirations of the company are exhausted
EndExpirations ==
    /\ pc = "expiration"
    /\ ei > Len(options_data[ci].expiration_dates)
    /\ ci' = ci + 1
    /\ pc' = "company"
    /\ PipelineOnly /\ InputsUnchanged /\ UNCHANGED previous /\ ListsUnchanged /\ LoopUnchanged
    /\ UNCHANGED << greek_lookup, price_lookup, delta_stats, ei, result >>

\* the pairs of the expiration are exhausted
EndPairs ==
    /\ pc = "pair"
    /\ ~InLoop
    /\ ei' = ei + 1
    /\ pc' = "expiration"
    /\ PipelineOnly /\ InputsUnchanged /\ UNCHANGED previous /\ ListsUnchanged /\ LoopUnchanged
    /\ UNCHANGED << greek_lookup, price_lookup, delta_stats, ci, result >>

\* the strikes are more than 5 apart: continue
SkipTooWide ==
    /\ InLoop
    /\ TooWide(short_call, long_call)
    /\ Continue("width")
    /\ ListsUnchanged /\ UNCHANGED delta_stats

\* one of the four lookups misses: continue
SkipLookupMissing ==
    /\ HasSymbols
    /\ LookupMissing(short_symbol, long_symbol, price_lookup, greek_lookup)
    /\ Continue("join")
    /\ ListsUnchanged /\ UNCHANGED delta_stats

\* time_to_exp <= 0: continue
SkipExpired ==
    /\ HasDays
    /\ Expired(time_to_exp)
    /\ Continue("expired")
    /\ ListsUnchanged /\ UNCHANGED delta_stats

\* short_bid <= 0 or long_ask <= 0: continue
SkipNoQuote ==
    /\ HasPrices
    /\ NoQuote(joined.short_bid, joined.long_ask)
    /\ Continue("quote")
    /\ ListsUnchanged /\ UNCHANGED delta_stats

\* market_credit <= 0: continue
SkipNoCredit ==
    /\ PastQuote
    /\ NoCredit(joined.market_credit)
    /\ Continue("credit")
    /\ ListsUnchanged /\ UNCHANGED delta_stats

\* a leg has no 'streamer_symbol': KeyError
ReadSymbolRaises ==
    /\ PastWidth
    /\ ~HasSymbols
    /\ RaiseKeyError

\* a Greek record has no 'implied_volatility': KeyError
ReadIvRaises ==
    /\ PastJoin
    /\ ~HasIvs
    /\ RaiseKeyError

\* the short leg has no 'days_until_expires': KeyError
ReadDaysRaises ==
    /\ HasIvs
    /\ ~HasDays
    /\ RaiseKeyError

\* the short quote has no 'what_buyers_pay' or the long quote no
\* 'what_sellers_want': KeyError
ReadPriceRaises ==
    /\ PastExpiry
    /\ ~HasPrices
    /\ RaiseKeyError

\* the pair is priced and counted, and fails 'ROI > 10, PoP > 66': continue
RejectSpread ==
    /\ PastCredit
    /\ delta_stats' = Track(delta_stats, metrics.spread_delta)
    /\ Rejected(metrics.roi_percent, metrics.probability_of_profit)
    /\ Continue("filter")
    /\ ListsUnchanged

\* the pair is priced and counted, and its spread is appended to the lists
AcceptSpread ==
    /\ PastCredit
    /\ delta_stats' = Track(delta_stats, metrics.spread_delta)
    /\ ~Rejected(metrics.roi_percent, metrics.probability_of_profit)
    /\ LET spread == SpreadOf(metrics)
       IN  /\ all_spreads_no_delta' = Append(all_spreads_no_delta, spread)
           /\ all_spreads_loose_delta' =
                 IF InLooseBand(spread.spread_delta)
                 THEN Append(all_spreads_loose_delta, spread)
                 ELSE all_spreads_loose_delta
           /\ all_spreads_strict_delta' =
                 IF InStrictBand(spread.spread_delta)
                 THEN Append(all_spreads_strict_delta, spread)
                 ELSE all_spreads_strict_delta
    /\ Continue("accepted")

\* the three lists are sorted by probability
SortLists ==
    /\ pc = "sort"
    /\ all_spreads_no_delta' = SortByPoP(all_spreads_no_delta)
    /\ all_spreads_loose_delta' = SortByPoP(all_spreads_loose_delta)
    /\ all_spreads_strict_delta' = SortByPoP(all_spreads_strict_delta)
    /\ pc' = "report"
    /\ PipelineOnly /\ InputsUnchanged /\ UNCHANGED previous /\ LoopUnchanged
    /\ UNCHANGED << greek_lookup, price_lookup, delta_stats, ci, ei, result >>

\* the delta statistics and the top 10 of each list are printed
PrintReport ==
    /\ pc = "report"
    /\ delta_stats.deltas_seen # << >>
    /\ pc' = "save"
    /\ PipelineOnly /\ InputsUnchanged /\ UNCHANGED previous /\ ListsUnchanged /\ LoopUnchanged
    /\ UNCHANGED << greek_lookup, price_lookup, delta_stats, ci, ei, result >>

\* min(delta_stats['deltas_seen']) of an empty list: ValueError
PrintReportRaises ==
    /\ pc = "report"
    /\ delta_stats.deltas_seen = << >>
    /\ pc' = "ValueError"
    /\ PipelineOnly /\ InputsUnchanged /\ UNCHANGED previous /\ ListsUnchanged /\ LoopUnchanged
    /\ UNCHANGED << greek_lookup, price_lookup, delta_stats, ci, ei, result >>

\* the result is built, written and returned
SaveResult ==
    /\ pc = "save"
    /\ \E now \in Timestamps :
          result' = << ResultOf(all_spreads_no_delta, all_spreads_loose_delta,
                                all_spreads_strict_delta, now) >>
    /\ pc' = "done"
    /\ PipelineOnly /\ InputsUnchanged /\ UNCHANGED previous /\ ListsUnchanged /\ LoopUnchanged
    /\ UNCHANGED << greek_lookup, price_lookup, delta_stats, ci, ei >>

\* the script is run once more on the same files
RunAgain ==
    /\ pc = "done"
    /\ previous = << >>
    /\ previous' = result
    /\ greek_lookup' = << >>
    /\ price_lookup' = << >>
    /\ all_spreads_no_delta' = << >>
    /\ all_spreads_loose_delta' = << >>
    /\ all_spreads_strict_delta' = << >>
    /\ delta_stats' = [ deltas_seen |-> << >>, negative_deltas |-> 0,
                        neutral_deltas |-> 0, positive_deltas |-> 0 ]
    /\ ci' = 0
    /\ ei' = 0
    /\ calls_above_price' = << >>
    /\ i' = 0
    /\ trail' = << >>
    /\ result' = << >>
    /\ pc' = "load"
    /\ PipelineOnly /\ InputsUnchanged

Next ==
    \/ RunAgain
    \/ LoadData
    \/ LoadDataRaises
    \/ CreateLookups
    \/ CreateLookupsRaises
    \/ BeginExpirationRaises
    \/ ReadSymbolRaises
    \/ ReadIvRaises
    \/ ReadDaysRaises
    \/ ReadPriceRaises
    \/ BeginCompany
    \/ EndCompanies
    \/ BeginExpiration
    \/ EndExpirations
    \/ EndPairs
    \/ SkipTooWide
    \/ SkipLookupMissing
    \/ SkipExpired
    \/ SkipNoQuote
    \/ SkipNoCredit
    \/ RejectSpread
    \/ AcceptSpread
    \/ SortLists
    \/ PrintReport
    \/ PrintReportRaises
    \/ SaveResult

Spec == Init /\ [][Next]_vars

\* ------------------------------------------------------------------------
\* BlackScholesCalculator: direct calls of its methods
\* ------------------------------------------------------------------------

\* spot and strike prices, in cents
SpotPrices == { 9000, 10000, 11000 }

StrikePrices == { 5000, 9000, 9500, 10000, 10500, 10800, 11000, 20000 }

\* years to expiration: 30 days ago, now, 30 days, 100 days, a year
Times == { -822, 0, 822, 2740, ONE }

\* volatilities: -0.1, 0, 0.15, 0.3, 1.0
Sigmas == { -1000, 0, 1500, 3000, ONE }

\* risk-free rates: 0 and the calculator's 0.05
Rates == { 0, risk_free_rate }

\* the calls: a method, its arguments and, since black_scholes_call takes
\* no option type, the type of the option the caller wants priced
Calls ==
    [ method : { "black_scholes_call", "probability_otm", "calculate_greeks" },
      S : SpotPrices, K : StrikePrices, T : Times, r : Rates, sigma : Sigmas,
      option_type : { "call", "put" } ]

\* no run of the pipeline
PipelineIdle ==
    /\ files = {}
    /\ options_data = << >>
    /\ risk_data = << >>
    /\ price_data = << >>
    /\ greek_lookup = << >>
    /\ price_lookup = << >>
    /\ all_spreads_no_delta = << >>
    /\ all_spreads_loose_delta = << >>
    /\ all_spreads_strict_delta = << >>
    /\ delta_stats = [ deltas_seen |-> << >>, negative_deltas |-> 0,
                       neutral_deltas |-> 0, positive_deltas |-> 0 ]
    /\ ci = 0
    /\ ei = 0
    /\ calls_above_price = << >>
    /\ i = 0
    /\ trail = << >>
    /\ result = << >>
    /\ previous = << >>
    /\ pc = "idle"

CalculatorInit ==
    /\ PipelineIdle
    /\ ProviderIdle
    /\ MasterIdle
    /\ bs_call \in Calls
    /\ bs_return = << >>

\* bs_calc.black_scholes_call(S, K, T, r, sigma) returns
BlackScholesCall ==
    /\ bs_call.method = "black_scholes_call"
    /\ bs_return = << >>
    /\ bs_return' = << black_scholes_call(bs_call.S, bs_call.K, bs_call.T,
                                          bs_call.r, bs_call.sigma) >>
    /\ UNCHANGED bs_call
    /\ CalculatorOnly

\* bs_calc.probability_otm(S, K, T, sigma, option_type) returns
ProbabilityOtm ==
    /\ bs_call.method = "probability_otm"
    /\ bs_return = << >>
    /\ bs_return' = << probability_otm(bs_call.S, bs_call.K, bs_call.T,
                                       bs_call.sigma, bs_call.option_type) >>
    /\ UNCHANGED bs_call
    /\ CalculatorOnly

\* bs_calc.calculate_greeks(S, K, T, r, sigma, option_type) returns
CalculateGreeks ==
    /\ bs_call.method = "calculate_greeks"
    /\ bs_return = << >>
    /\ bs_return' = << calculate_greeks(bs_call.S, bs_call.K, bs_call.T,
                                        bs_call.r, bs_call.sigma,
                                        bs_call.option_type) >>
    /\ UNCHANGED bs_call
    /\ CalculatorOnly

CalculatorNext ==
    \/ BlackScholesCall
    \/ ProbabilityOtm
    \/ CalculateGreeks

CalculatorSpec == CalculatorInit /\ [][CalculatorNext]_vars

\* ------------------------------------------------------------------------
\* market_data: the providers IBKRProvider and TastyTradeProvider
\* ------------------------------------------------------------------------

\* the calls made on one provider
MaxCalls == 2

\* the threads that call the provider
Threads == { "main" }

\* the symbols asked for
StockSymbols == { "AAPL", "msft" }

\* the period and timeframe arguments of get_historical_data
Periods == { "1Y", "6M" }

Timeframes == { "1D", "1H" }

\* str.upper()
Upper(symbol) == IF symbol = "msft" THEN "MSFT" ELSE symbol

\* A value of a ticker or of a streamer event: None, a float that is NaN
\* (ib_async's value of a field nothing was received for), or a number
\* (prices in cents).
None == [ is |-> "None", v |-> 0 ]

NaN == [ is |-> "nan", v |-> 0 ]

Num(n) == [ is |-> "num", v |-> n ]

\* bool(x): None and 0 are false, NaN is true
Truthy(x) == x.is = "nan" \/ (x.is = "num" /\ x.v # 0)

\* 'if x' without the comparison
NotFalse(x) == x.is = "nan" \/ (x.is = "num" /\ x.v # 0)

\* x > 0: false for NaN
Positive(x) == x.is = "num" /\ x.v > 0

\* int(x) raises ValueError for NaN
IntRaises(x) == x.is = "nan"

\* the tickers ib_async hands to on_ticker_update
Tickers ==
    [ last : { NaN, Num(0), Num(15000) },
      bid : { NaN, Num(-100), Num(14990) },
      ask : { NaN, Num(0), Num(15010) },
      volume : { NaN, Num(1200) } ]

\* the worker threads of the ThreadPoolExecutor that get a symbol
Workers == { "w1", "w2" }

\* the tickers handed to the handler of a thread: a worker thread gets
\* those with a last price only
TickersOf(t) ==
    IF t \in Workers
    THEN { ticker \in Tickers : ticker.bid = NaN /\ ticker.ask = NaN }
    ELSE Tickers

\* the Quote events of the DXLinkStreamer
TTQuotes ==
    [ event_symbol : StockSymbols,
      bid_price : { None, Num(0), Num(14990) },
      ask_price : { None, Num(15010) },
      bid_size : { None, Num(300) },
      ask_size : { Num(0), Num(500) } ]

\* interface.Quote (the timestamp is left out)
Quote(symbol, price, bid, ask, volume) ==
    [ symbol |-> Upper(symbol), price |-> price, bid |-> bid, ask |-> ask,
      volume |-> volume ]

\* interface.HistoricalData (the data frame is left out)
HistoricalData(symbol, period, timeframe) ==
    [ symbol |-> Upper(symbol), timeframe |-> timeframe, period |-> period ]

\* the frame of a thread that calls nothing
NoFrame == [ method |-> "none" ]

\* the frame of a call that has just begun
NewFrame(method, symbol, period, timeframe) ==
    [ method |-> method, symbol |-> symbol, period |-> period,
      timeframe |-> timeframe, at |-> "_ensure_connected",
      connect |-> "not tried", ticker_bound |-> FALSE,
      quote_received |-> FALSE, received_quote |-> << >>,
      error_msg |-> << >>, elapsed |-> 0, pending |-> << >>,
      last_update |-> "none", valid_updates |-> FALSE, exit |-> "none",
      cleanup |-> "none" ]

\* how a call ends
Returns(class, value) == [ kind |-> "return", class |-> class, value |-> << value >> ]

Raises(exception) == [ kind |-> "raise", class |-> exception, value |-> << >> ]

\* no except clause: what is raised inside the try block leaves as it is
Unwrapped(method, exception) == exception

\* the except clauses of get_quote and of get_historical_data: whatever
\* is raised inside the try block leaves as the method's own error
Wrapped(method, exception) ==
    IF method = "get_quote" THEN "QuoteError" ELSE "HistoricalDataError"

\* get_historical_data of the class asks the provider for data
AlwaysSupported(class) == TRUE

HistoricalDataSupported(class) == class = "IBKRProvider"

\* the state of a provider after __init__
ProviderInit ==
    /\ PipelineIdle
    /\ CalculatorIdle
    /\ MasterIdle
    /\ provider \in { "IBKRProvider", "TastyTradeProvider" }
    /\ _connected = FALSE
    /\ ib = [ isConnected |-> FALSE, mktData |-> {}, handlers |-> {} ]
    /\ session = "None"
    /\ frame = [ t \in Threads |-> NoFrame ]
    /\ outcome = << >>
    /\ calls = 0

\* the running call of thread t is at the given place
At(t, place) == frame[t].method # "none" /\ frame[t].at = place

\* the call of thread t moves on
Goto(t, place) == frame' = [ frame EXCEPT ![t].at = place ]

\* the call of thread t ends
Ended(t, method, symbol, period, timeframe, connect, how, history) ==
    [ thread |-> t, method |-> method, symbol |-> symbol, period |-> period,
      timeframe |-> timeframe, connect |-> connect, kind |-> how.kind,
      class |-> how.class, value |-> how.value,
      valid_updates |-> history.valid_updates, exit |-> history.exit,
      cleanup |-> history.cleanup ]

\* a call that never reached _get_quote_event_driven
NoQuoteHistory == [ valid_updates |-> FALSE, exit |-> "none", cleanup |-> "none" ]

\* the call of thread t ends; 'cleanup' is what its finally block did
FinishAfter(t, how, cleanup) ==
    /\ frame' = [ frame EXCEPT ![t] = NoFrame ]
    /\ outcome' = Append(outcome,
                         Ended(t, frame[t].method, frame[t].symbol,
                               frame[t].period, frame[t].timeframe,
                               frame[t].connect, how,
                               [ valid_updates |-> frame[t].valid_updates,
                                 exit |-> frame[t].exit,
                                 cleanup |-> cleanup ]))

Finish(t, how) == FinishAfter(t, how, "none")

\* the condition of _ensure_connected
NotConnected ==
    IF provider = "IBKRProvider"
    THEN ~ _connected \/ ~ ib.isConnected
    ELSE ~ _connected \/ session = "None"

\* provider.get_quote(symbol) or provider.get_historical_data(symbol) is
\* called; TastyTradeProvider.get_historical_data is GetHistoricalDataRaises
CallProvider(t) ==
    /\ provider # "none"
    /\ frame[t].method = "none"
    /\ calls < MaxCalls
    /\ \E symbol \in StockSymbols :
          \/ frame' = [ frame EXCEPT
                           ![t] = NewFrame("get_quote", symbol, "1Y", "1D") ]
          \/ /\ HistoricalDataSupported(provider)
             /\ \E period \in Periods, timeframe \in Timeframes :
                   frame' = [ frame EXCEPT
                                ![t] = NewFrame("get_historical_data", symbol,
                                                period, timeframe) ]
    /\ calls' = calls + 1
    /\ UNCHANGED << provider, _connected, ib, session, outcome >>
    /\ ProviderOnly

\* TastyTradeProvider.get_historical_data: raise NotSupportedError
GetHistoricalDataRaises(t) ==
    /\ provider # "none"
    /\ ~ HistoricalDataSupported(provider)
    /\ frame[t].method = "none"
    /\ calls < MaxCalls
    /\ \E symbol \in StockSymbols, period \in Periods, timeframe \in Timeframes :
          outcome' = Append(outcome,
                            Ended(t, "get_historical_data", symbol, period,
                                  timeframe, "not tried",
                                  Raises("NotSupportedError"), NoQuoteHistory))
    /\ calls' = calls + 1
    /\ UNCHANGED << provider, _connected, ib, session, frame >>
    /\ ProviderOnly

\* _ensure_connected: 'if not self._connected or not ...' is evaluated
EnsureConnected(t) ==
    /\ At(t, "_ensure_connected")
    /\ Goto(t, IF NotConnected THEN "connect" ELSE "try")
    /\ UNCHANGED << provider, _connected, ib, session, outcome, calls >>
    /\ ProviderOnly

\* _ensure_connected: ib.connect(...) or Session(...) succeeds
Connect(t) ==
    /\ At(t, "connect")
    /\ IF provider = "IBKRProvider"
       THEN /\ ib' = [ ib EXCEPT !.isConnected = TRUE ]
            /\ UNCHANGED session
       ELSE /\ session' = "Session"
            /\ UNCHANGED ib
    /\ _connected' = TRUE
    /\ frame' = [ frame EXCEPT ![t].at = "try", ![t].connect = "connected" ]
    /\ UNCHANGED << provider, outcome, calls >>
    /\ ProviderOnly

\* _ensure_connected: ib.connect(...) or Session(...) raises, and
\* ConnectionError is raised outside the try block of the method
ConnectFails(t) ==
    /\ At(t, "connect")
    /\ frame' = [ frame EXCEPT ![t] = NoFrame ]
    /\ outcome' = Append(outcome,
                         Ended(t, frame[t].method, frame[t].symbol,
                               frame[t].period, frame[t].timeframe, "failed",
                               Raises("ConnectionError"), NoQuoteHistory))
    /\ UNCHANGED << provider, _connected, ib, session, calls >>
    /\ ProviderOnly

\* the socket to TWS closes: ib.isConnected() turns false
ConnectionLost ==
    /\ provider = "IBKRProvider"
    /\ ib.isConnected
    /\ ib' = [ ib EXCEPT !.isConnected = FALSE ]
    /\ UNCHANGED << provider, _connected, session, frame, outcome, calls >>
    /\ ProviderOnly

\* _create_qualified_contract returns the first qualified contract
QualifyContract(t) ==
    /\ provider = "IBKRProvider"
    /\ At(t, "try")
    /\ Goto(t, IF frame[t].method = "get_quote" THEN "reqMktData"
               ELSE "reqHistoricalData")
    /\ UNCHANGED << provider, _connected, ib, session, outcome, calls >>
    /\ ProviderOnly

\* _create_qualified_contract raises ValueError (nothing qualified), or
\* ib.qualifyContracts raises
QualifyContractRaises(t) ==
    /\ provider = "IBKRProvider"
    /\ At(t, "try")
    /\ \E exception \in { "ValueError", "Exception" } :
          Finish(t, Raises(Wrapped(frame[t].method, exception)))
    /\ UNCHANGED << provider, _connected, ib, session, calls >>
    /\ ProviderOnly

\* _get_quote_event_driven: ib.reqMktData and ticker.updateEvent += handler
ReqMktData(t) ==
    /\ At(t, "reqMktData")
    /\ ib' = [ ib EXCEPT !.mktData = @ \cup { frame[t].symbol },
                         !.handlers = @ \cup { t } ]
    /\ frame' = [ frame EXCEPT ![t].at = "wait", ![t].ticker_bound = TRUE ]
    /\ UNCHANGED << provider, _connected, session, outcome, calls >>
    /\ ProviderOnly

\* _get_quote_event_driven: ib.reqMktData raises; 'ticker' stays unbound
ReqMktDataRaises(t) ==
    /\ At(t, "reqMktData")
    /\ frame' = [ frame EXCEPT ![t].at = "finally",
                               ![t].exit = "request raised",
                               ![t].pending = << Raises("Exception") >> ]
    /\ UNCHANGED << provider, _connected, ib, session, outcome, calls >>
    /\ ProviderOnly

\* the body of on_ticker_update's try block raises: int(ticker.volume) of
\* NaN, in the branch the ticker takes
HandlerRaises(ticker) ==
    /\ \/ Truthy(ticker.last) /\ Positive(ticker.last)
       \/ /\ Truthy(ticker.bid) /\ Truthy(ticker.ask)
          /\ Positive(ticker.bid) /\ Positive(ticker.ask)
    /\ Truthy(ticker.volume)
    /\ IntRaises(ticker.volume)

\* the Quote on_ticker_update builds, << >> if it builds none; the mid
\* price of the model's tickers is a whole number of cents
TickerQuote(symbol, ticker) ==
    LET volume == IF Truthy(ticker.volume) THEN ticker.volume ELSE Num(0)
    IN  IF Truthy(ticker.last) /\ Positive(ticker.last)
        THEN << Quote(symbol, ticker.last,
                      IF Truthy(ticker.bid) THEN ticker.bid ELSE Num(0),
                      IF Truthy(ticker.ask) THEN ticker.ask ELSE Num(0),
                      volume) >>
        ELSE IF /\ Truthy(ticker.bid) /\ Truthy(ticker.ask)
                /\ Positive(ticker.bid) /\ Positive(ticker.ask)
             THEN << Quote(symbol, Num((ticker.bid.v + ticker.ask.v) \div 2),
                           ticker.bid, ticker.ask, volume) >>
             ELSE << >>

\* the ticker carries valid price data: last > 0, or else bid > 0 and
\* ask > 0
ValidPrices(ticker) ==
    \/ ticker.last.is = "num" /\ ticker.last.v > 0
    \/ /\ ticker.bid.is = "num" /\ ticker.bid.v > 0
       /\ ticker.ask.is = "num" /\ ticker.ask.v > 0

\* the frame of _get_quote_event_driven after on_ticker_update(ticker)
AfterUpdate(f, ticker) ==
    IF HandlerRaises(ticker)
    THEN [ f EXCEPT !.error_msg = << "ValueError" >>, !.quote_received = TRUE ]
    ELSE IF TickerQuote(f.symbol, ticker) # << >>
         THEN [ f EXCEPT !.received_quote = TickerQuote(f.symbol, ticker),
                         !.quote_received = TRUE ]
         ELSE f

\* on_ticker_update(ticker), while the caller waits; last_update and
\* valid_updates keep what kind of ticker came
OnTickerUpdate(t) ==
    /\ At(t, "wait")
    /\ t \in ib.handlers
    /\ \E ticker \in TickersOf(t) :
          frame' =
             [ frame EXCEPT
                  ![t] = [ AfterUpdate(frame[t], ticker) EXCEPT
                              !.last_update = IF ValidPrices(ticker)
                                              THEN "valid" ELSE "invalid",
                              !.valid_updates = @ \/ ValidPrices(ticker) ] ]
    /\ UNCHANGED << provider, _connected, ib, session, outcome, calls >>
    /\ ProviderOnly

\* quote_received.wait(timeout) returns True
WaitReturns(t) ==
    /\ At(t, "wait")
    /\ frame[t].quote_received
    /\ frame' =
          [ frame EXCEPT
               ![t].at = "finally",
               ![t].exit =
                  IF frame[t].error_msg # << >> THEN "error"
                  ELSE IF frame[t].received_quote # << >> THEN "quote"
                       ELSE "no data",
               ![t].pending =
                  IF frame[t].error_msg # << >>
                  THEN << Raises("QuoteError") >>
                  ELSE IF frame[t].received_quote # << >>
                       THEN << Returns("Quote", frame[t].received_quote[1]) >>
                       ELSE << Raises("QuoteError") >> ]
    /\ UNCHANGED << provider, _connected, ib, session, outcome, calls >>
    /\ ProviderOnly

\* quote_received.wait(timeout) returns False after the timeout
WaitTimesOut(t) ==
    /\ At(t, "wait")
    /\ ~ frame[t].quote_received
    /\ frame' = [ frame EXCEPT ![t].at = "finally",
                               ![t].exit = "timeout",
                               ![t].pending = << Raises("QuoteError") >> ]
    /\ UNCHANGED << provider, _connected, ib, session, outcome, calls >>
    /\ ProviderOnly

\* what leaves get_quote after the finally block: the Quote, or what the
\* except clauses make of the exception
Leaves(t) ==
    LET pending == frame[t].pending[1]
    IN  IF pending.kind = "return" THEN pending
        ELSE Raises(Wrapped(frame[t].method, pending.class))

\* the client after cancelMktData alone: the handler of the thread stays
KeepHandler(client, t, symbol) == [ client EXCEPT !.mktData = @ \ { symbol } ]

\* the client after 'ticker.updateEvent -= on_ticker_update' and
\* 'self.ib.cancelMktData(contract)'
Unsubscribed(client, t, symbol) ==
    [ client EXCEPT !.mktData = @ \ { symbol }, !.handlers = @ \ { t } ]

\* the finally block: the handler is removed and cancelMktData is called
Cleanup(t) ==
    /\ At(t, "finally")
    /\ frame[t].ticker_bound
    /\ ib' = Unsubscribed(ib, t, frame[t].symbol)
    /\ FinishAfter(t, Leaves(t), "cancelMktData")
    /\ UNCHANGED << provider, _connected, session, calls >>
    /\ ProviderOnly

\* the finally block raises and 'except: pass' swallows it: NameError
\* when 'ticker' is unbound and nothing is called, or cancelMktData is
\* called and raises after it ended the request
CleanupRaises(t) ==
    /\ At(t, "finally")
    /\ ib' = IF frame[t].ticker_bound
             THEN Unsubscribed(ib, t, frame[t].symbol)
             ELSE ib
    /\ FinishAfter(t, Leaves(t),
                   IF frame[t].ticker_bound THEN "cancelMktData raised"
                   ELSE "NameError")
    /\ UNCHANGED << provider, _connected, session, calls >>
    /\ ProviderOnly

\* IBKRProvider.get_historical_data: ib.reqHistoricalData returns bars,
\* returns none (or an empty frame), or raises
ReqHistoricalData(t) ==
    /\ At(t, "reqHistoricalData")
    /\ \E bars \in { "bars", "no bars", "empty df", "raises" } :
          Finish(t, IF bars = "bars"
                    THEN Returns("HistoricalData",
                                 HistoricalData(frame[t].symbol, frame[t].period,
                                                frame[t].timeframe))
                    ELSE IF bars = "raises"
                         THEN Raises(Wrapped(frame[t].method, "Exception"))
                         ELSE Raises(Wrapped(frame[t].method,
                                             "HistoricalDataError")))
    /\ UNCHANGED << provider, _connected, ib, session, calls >>
    /\ ProviderOnly

\* TastyTradeProvider._get_quote_async: the streamer opens and subscribes
OpenStreamer(t) ==
    /\ provider = "TastyTradeProvider"
    /\ At(t, "try")
    /\ Goto(t, "get_event")
    /\ UNCHANGED << provider, _connected, ib, session, outcome, calls >>
    /\ ProviderOnly

\* something inside run_until_complete raises: the streamer does not
\* open, or get_event raises something other than TimeoutError
StreamerRaises(t) ==
    /\ provider = "TastyTradeProvider"
    /\ At(t, "try") \/ At(t, "get_event")
    /\ Finish(t, Raises(Wrapped(frame[t].method, "Exception")))
    /\ UNCHANGED << provider, _connected, ib, session, calls >>
    /\ ProviderOnly

\* the Quote _get_quote_async builds of an event; the mid price of the
\* model's events is a whole number of cents
EventQuote(symbol, quote) ==
    Quote(symbol,
          IF Truthy(quote.bid_price) /\ Truthy(quote.ask_price)
          THEN Num((quote.bid_price.v + quote.ask_price.v) \div 2)
          ELSE IF Truthy(quote.bid_price) THEN quote.bid_price
               ELSE IF Truthy(quote.ask_price) THEN quote.ask_price
                    ELSE Num(0),
          IF Truthy(quote.bid_price) THEN quote.bid_price ELSE Num(0),
          IF Truthy(quote.ask_price) THEN quote.ask_price ELSE Num(0),
          IF Truthy(quote.bid_size) /\ Truthy(quote.ask_size)
          THEN Num(quote.bid_size.v + quote.ask_size.v) ELSE Num(0))

\* the seconds the loop of _get_quote_async runs
QuoteTimeout == 10

\* the seconds one get_event may take
EventTimeout == 2

\* streamer.get_event returns within its timeout: the event of the symbol
\* ends the call with a Quote, any other event is passed over
GetEvent(t) ==
    /\ At(t, "get_event")
    /\ frame[t].elapsed < QuoteTimeout
    /\ \E quote \in TTQuotes :
          IF quote.event_symbol = frame[t].symbol
          THEN /\ Finish(t, Returns("Quote", EventQuote(frame[t].symbol, quote)))
          ELSE /\ frame' = [ frame EXCEPT ![t].elapsed = @ + 1 ]
               /\ UNCHANGED outcome
    /\ UNCHANGED << provider, _connected, ib, session, calls >>
    /\ ProviderOnly

\* asyncio.wait_for raises TimeoutError: continue
GetEventTimesOut(t) ==
    /\ At(t, "get_event")
    /\ frame[t].elapsed < QuoteTimeout
    /\ frame' = [ frame EXCEPT ![t].elapsed = @ + EventTimeout ]
    /\ UNCHANGED << provider, _connected, ib, session, outcome, calls >>
    /\ ProviderOnly

\* the loop ends, _get_quote_async returns None and get_quote raises
\* QuoteError inside its try block
NoQuoteData(t) ==
    /\ At(t, "get_event")
    /\ frame[t].elapsed >= QuoteTimeout
    /\ Finish(t, Raises(Wrapped(frame[t].method, "QuoteError")))
    /\ UNCHANGED << provider, _connected, ib, session, calls >>
    /\ ProviderOnly

ProviderNext ==
    \/ ConnectionLost
    \/ \E t \in Threads :
          \/ CallProvider(t)
          \/ GetHistoricalDataRaises(t)
          \/ EnsureConnected(t)
          \/ Connect(t)
          \/ ConnectFails(t)
          \/ QualifyContract(t)
          \/ QualifyContractRaises(t)
          \/ ReqMktData(t)
          \/ ReqMktDataRaises(t)
          \/ OnTickerUpdate(t)
          \/ WaitReturns(t)
          \/ WaitTimesOut(t)
          \/ Cleanup(t)
          \/ CleanupRaises(t)
          \/ ReqHistoricalData(t)
          \/ OpenStreamer(t)
          \/ StreamerRaises(t)
          \/ GetEvent(t)
          \/ GetEventTimesOut(t)
          \/ NoQuoteData(t)

ProviderSpec == ProviderInit /\ [][ProviderNext]_vars

\* ------------------------------------------------------------------------
\* IBKRProvider.get_multiple_quotes_optimized
\* ------------------------------------------------------------------------

\* the worker that runs the k-th submitted call
WorkerOf(k) == IF k = 1 THEN "w1" ELSE "w2"

\* the 'symbols' argument
SymbolLists ==
    { << >> } \cup { << a >> : a \in StockSymbols }
    \cup { << a, b >> : a, b \in StockSymbols }

\* the futures of a call: the workers that were given a symbol
Futures(symbols) == { WorkerOf(k) : k \in DOMAIN symbols }

\* the record of the get_quote call the worker made, << >> while it runs
CallOf(w) ==
    IF \E k \in DOMAIN outcome : outcome[k].thread = w
    THEN << outcome[CHOOSE k \in DOMAIN outcome : outcome[k].thread = w] >>
    ELSE << >>

\* get_single_quote without its try: what get_quote raises is raised by
\* future.result()
Uncaught(o) ==
    [ symbol |-> o.symbol, quote |-> o.value,
      raised |-> IF o.kind = "raise" THEN << o.class >> ELSE << >> ]

\* get_single_quote: (symbol, quote), or (symbol, None) when get_quote
\* raised; None is << >> here and a Quote q is << q >>
get_single_quote(o) == [ symbol |-> o.symbol, quote |-> o.value, raised |-> << >> ]

\* 'results' with results[symbol] = quote
Assign(results, symbol, quote) ==
    [ s \in DOMAIN results \cup { symbol } |->
         IF s = symbol THEN quote ELSE results[s] ]

\* the provider when get_multiple_quotes_optimized(symbols) is called:
\* not connected yet, or connected by an earlier call
MultipleQuotesInit ==
    /\ PipelineIdle
    /\ CalculatorIdle
    /\ MasterIdle
    /\ provider = "IBKRProvider"
    /\ _connected \in BOOLEAN
    /\ ib = [ isConnected |-> _connected, mktData |-> {}, handlers |-> {} ]
    /\ session = "None"
    /\ \E symbols \in SymbolLists :
          frame = [ t \in Threads \cup Workers |->
                      IF t \in Workers THEN NoFrame
                      ELSE [ method |-> "get_multiple_quotes_optimized",
                             symbols |-> symbols, at |-> "submit",
                             yielded |-> {}, results |-> << >> ] ]
    /\ outcome = << >>
    /\ calls = 0

\* executor.submit(get_single_quote, symbol) for every symbol: each
\* worker begins its get_quote
Submit(t) ==
    /\ At(t, "submit")
    /\ frame' = [ w \in DOMAIN frame |->
                    IF w = t THEN [ frame[t] EXCEPT !.at = "as_completed" ]
                    ELSE IF w \in Futures(frame[t].symbols)
                         THEN NewFrame("get_quote",
                                       frame[t].symbols[
                                          CHOOSE k \in DOMAIN frame[t].symbols :
                                             WorkerOf(k) = w ],
                                       "1Y", "1D")
                         ELSE frame[w] ]
    /\ calls' = calls + Len(frame[t].symbols)
    /\ UNCHANGED << provider, _connected, ib, session, outcome >>
    /\ ProviderOnly

\* as_completed yields a future that is done; future.result() is the
\* pair of get_single_quote and results[symbol] = quote
AsCompleted(t) ==
    /\ At(t, "as_completed")
    /\ \E w \in Futures(frame[t].symbols) \ frame[t].yielded :
          /\ CallOf(w) # << >>
          /\ LET pair == get_single_quote(CallOf(w)[1])
             IN  IF pair.raised # << >>
                 THEN /\ frame' = [ frame EXCEPT ![t].at = "shutdown" ]
                      /\ outcome' = Append(outcome,
                            [ thread |-> t, method |-> frame[t].method,
                              symbols |-> frame[t].symbols, kind |-> "raise",
                              class |-> pair.raised[1], value |-> << >> ])
                 ELSE /\ frame' = [ frame EXCEPT
                                       ![t].yielded = @ \cup { w },
                                       ![t].results = Assign(@, pair.symbol,
                                                             pair.quote) ]
                      /\ UNCHANGED outcome
    /\ UNCHANGED << provider, _connected, ib, session, calls >>
    /\ ProviderOnly

\* as_completed(..., timeout=timeout * 2) raises TimeoutError while a
\* future is not done; the executor is shut down before it leaves the call
AsCompletedTimesOut(t) ==
    /\ At(t, "as_completed")
    /\ \E w \in Futures(frame[t].symbols) : CallOf(w) = << >>
    /\ frame' = [ frame EXCEPT ![t].at = "shutdown" ]
    /\ outcome' = Append(outcome,
                         [ thread |-> t, method |-> frame[t].method,
                           symbols |-> frame[t].symbols, kind |-> "raise",
                           class |-> "TimeoutError", value |-> << >> ])
    /\ UNCHANGED << provider, _connected, ib, session, calls >>
    /\ ProviderOnly

\* every future was yielded: 'return results'
ReturnResults(t) ==
    /\ At(t, "as_completed")
    /\ frame[t].yielded = Futures(frame[t].symbols)
    /\ frame' = [ frame EXCEPT ![t].at = "returned" ]
    /\ outcome' = Append(outcome,
                         [ thread |-> t, method |-> frame[t].method,
                           symbols |-> frame[t].symbols, kind |-> "return",
                           class |-> "dict", value |-> << frame[t].results >> ])
    /\ UNCHANGED << provider, _connected, ib, session, calls >>
    /\ ProviderOnly

MultipleQuotesNext ==
    \/ \E t \in Threads :
          \/ Submit(t)
          \/ AsCompleted(t)
          \/ AsCompletedTimesOut(t)
          \/ ReturnResults(t)
    \/ \E w \in Workers :
          \/ EnsureConnected(w)
          \/ Connect(w)
          \/ ConnectFails(w)
          \/ QualifyContract(w)
          \/ QualifyContractRaises(w)
          \/ ReqMktData(w)
          \/ ReqMktDataRaises(w)
          \/ OnTickerUpdate(w)
          \/ WaitReturns(w)
          \/ WaitTimesOut(w)
          \/ Cleanup(w)
          \/ CleanupRaises(w)

MultipleQuotesSpec == MultipleQuotesInit /\ [][MultipleQuotesNext]_vars

\* ------------------------------------------------------------------------
\* master.py: run_complete_analysis
\* ------------------------------------------------------------------------

\* the scripts of 'steps', in their order
Steps ==
    << "stock_prices.py", "options_chains.py", "risk_analysis.py",
       "market_prices.py", "find_tendies.py" >>

\* how subprocess.run ends: the script exits with a return code, having
\* written to stdout or not, or TimeoutExpired or another exception is
\* raised
Exits ==
    [ kind : { "exit" }, returncode : { 0, 1, 2 }, stdout : BOOLEAN ]
    \cup [ kind : { "TimeoutExpired", "Exception" }, returncode : { -1 },
           stdout : { FALSE } ]

\* the script exited with return code 0
Succeeded(exit) == exit.kind = "exit" /\ exit.returncode = 0

\* the loop goes on whatever the script did
KeepGoing(m) == [ m EXCEPT !.at = "for", !.i = @ + 1 ]

\* a step failed: return False
ReturnFalse(m) == [ m EXCEPT !.at = "returned", !.returned = << FALSE >> ]

MasterInit ==
    /\ PipelineIdle
    /\ CalculatorIdle
    /\ ProviderIdle
    /\ master = [ at |-> "for", i |-> 1, started |-> << >>, exits |-> << >>,
                  summary |-> "none", returned |-> << >> ]

\* 'for i, (script, description) in enumerate(steps, 1)': subprocess.run
\* starts the next script
RunScript ==
    /\ master.at = "for"
    /\ master.i <= Len(Steps)
    /\ master' = [ master EXCEPT !.at = "subprocess.run",
                                 !.started = Append(@, Steps[master.i]) ]
    /\ MasterOnly

\* subprocess.run returns and the return code is 0: the next iteration
ScriptSucceeds ==
    /\ master.at = "subprocess.run"
    /\ \E exit \in Exits :
          /\ Succeeded(exit)
          /\ master' = [ master EXCEPT !.at = "for", !.i = @ + 1,
                                       !.exits = Append(@, exit) ]
    /\ MasterOnly

\* subprocess.run returns a non-zero return code, or raises
\* TimeoutExpired after 300 s, or raises something else: return False
ScriptFails ==
    /\ master.at = "subprocess.run"
    /\ \E exit \in Exits :
          /\ ~ Succeeded(exit)
          /\ master' = ReturnFalse([ master EXCEPT !.exits = Append(@, exit) ])
    /\ MasterOnly

\* the loop is over: the summary of step5_delta_analysis.json is printed,
\* or loading it raises and the exception is reported; return True
PrintSummary ==
    /\ master.at = "for"
    /\ master.i > Len(Steps)
    /\ \E summary \in { "printed", "could not load" } :
          master' = [ master EXCEPT !.at = "returned", !.summary = summary,
                                    !.returned = << TRUE >> ]
    /\ MasterOnly

MasterNext ==
    \/ RunScript
    \/ ScriptSucceeds
    \/ ScriptFails
    \/ PrintSummary

MasterSpec == MasterInit /\ [][MasterNext]_vars

\* ------------------------------------------------------------------------
\* Properties
\* ------------------------------------------------------------------------

\* the loops are over
LoopDone == pc \in { "sort", "report", "save", "ValueError", "done" }

\* the lists are sorted
ListsSorted == pc \in { "report", "save", "ValueError", "done" }

\* every spread held by a list or written to best_deals
Listed ==
    Range(all_spreads_no_delta) \cup Range(all_spreads_loose_delta)
    \cup Range(all_spreads_strict_delta)
    \cup (IF result = << >> THEN {} ELSE Range(result[1].best_deals))

\* the sorted out-of-the-money calls of expiration e of company c
SortedCalls(c, e) ==
    CallsAbovePrice(options_data[c].expiration_dates[e].contracts,
                    options_data[c].current_stock_price)

\* the adjacent-strike candidates of the input: << company, expiration, k >>
\* stands for the k-th and (k+1)-th call of SortedCalls
Candidates ==
    UNION { UNION { { << c, e, k >> : k \in 1..(Len(SortedCalls(c, e)) - 1) } :
                    e \in DOMAIN options_data[c].expiration_dates } :
            c \in DOMAIN options_data }

ShortOf(x) == SortedCalls(x[1], x[2])[x[3]]

LongOf(x) == SortedCalls(x[1], x[2])[x[3] + 1]

\* quote and Greek record of both legs are in the lookups
FourLookups(short, long) ==
    /\ short.streamer_symbol \in DOMAIN price_lookup
    /\ long.streamer_symbol \in DOMAIN price_lookup
    /\ short.streamer_symbol \in DOMAIN greek_lookup
    /\ long.streamer_symbol \in DOMAIN greek_lookup

BidOf(short) == price_lookup[short.streamer_symbol].what_buyers_pay

AskOf(long) == price_lookup[long.streamer_symbol].what_sellers_want

\* short.bid - long.ask, in cents
CreditOf(short, long) == BidOf(short) - AskOf(long)

WidthOf(short, long) == long.strike_price - short.strike_price

\* width - credit, in cents
RiskOf(short, long) == WidthOf(short, long) - CreditOf(short, long)

\* credit / risk * 100 > 10, in exact arithmetic
RoiAboveTen(short, long) ==
    RiskOf(short, long) > 0 /\ CreditOf(short, long) * 100 > 10 * RiskOf(short, long)

\* the PoP of the pair, in hundredths of a percent
PopOf(spot, short, long) ==
    Percent(probability_otm(
        spot, short.strike_price, TimeToExp(short.days_until_expires),
        AvgIv(greek_lookup[short.streamer_symbol].implied_volatility,
              greek_lookup[long.streamer_symbol].implied_volatility),
        "call"))

\* credit > 0, maxRisk > 0, roi > 10 and PoP > 66, the four lookups present
PassesSpecFilter(spot, short, long) ==
    /\ FourLookups(short, long)
    /\ CreditOf(short, long) > 0
    /\ RiskOf(short, long) > 0
    /\ RoiAboveTen(short, long)
    /\ PopOf(spot, short, long) > 6600

\* a spread of this company, these strikes and this credit is in the
\* unconstrained list
InNoDeltaList(c, short, long) ==
    \E s \in Range(all_spreads_no_delta) :
        /\ s.company = options_data[c].company
        /\ s.short_strike = short.strike_price
        /\ s.long_strike = long.strike_price
        /\ s.credit_collected = CreditOf(short, long)

Sorted(s) ==
    \A k \in 1..(Len(s) - 1) :
        s[k].probability_of_profit >= s[k + 1].probability_of_profit

\* the entries of the trail that reached the Greeks step
Priced(e) == e.stage \in { "filter", "accepted" }

\* C1: every spread in the unconstrained, loose or strict list, and every
\* entry of best_deals, has roi_percent > 10 and probability_of_profit > 66,
\* whatever its delta.
C1_PrimaryFilterHolds ==
    \A s \in Listed : s.roi_percent > 1000 /\ s.probability_of_profit > 6600

\* C1 witness: a finished run that kept a spread with |delta| > 0.5 and
\* rejected another pair on the primary filter.
C1_Witness ==
    /\ pc = "done"
    /\ \E s \in Range(result[1].best_deals) : Abs(s.spread_delta) > 5000
    /\ \E e \in Range(trail) : e.stage = "filter"

\* C2: every spread of the strict list is in the loose list and every
\* spread of the loose list is in the unconstrained list; the reported
\* counts satisfy strict_delta_filter <= loose_delta_filter <= no_delta_filter.
C2_ListsNested ==
    /\ Range(all_spreads_strict_delta) \subseteq Range(all_spreads_loose_delta)
    /\ Range(all_spreads_loose_delta) \subseteq Range(all_spreads_no_delta)
    /\ Len(all_spreads_strict_delta) <= Len(all_spreads_loose_delta)
    /\ Len(all_spreads_loose_delta) <= Len(all_spreads_no_delta)
    /\ result # << >> =>
          /\ result[1].delta_analysis.strict_delta_filter
                <= result[1].delta_analysis.loose_delta_filter
          /\ result[1].delta_analysis.loose_delta_filter
                <= result[1].delta_analysis.no_delta_filter

\* C2 witness: a finished run whose three counts differ.
C2_Witness ==
    /\ pc = "done"
    /\ result[1].delta_analysis.strict_delta_filter
          < result[1].delta_analysis.loose_delta_filter
    /\ result[1].delta_analysis.loose_delta_filter
          < result[1].delta_analysis.no_delta_filter

\* the three views of a finished run: best_deals, the loose list, the strict
\* list
Views ==
    { result[1].best_deals, all_spreads_loose_delta, all_spreads_strict_delta }

\* C3 as stated: each of the three views is sorted by descending PoP and
\* holds at most 25 spreads.
C3_EveryViewTruncated ==
    pc = "done" => \A v \in Views : Sorted(v) /\ Len(v) <= 25

\* C3 as amended: the three lists are each sorted by descending PoP; only
\* the unconstrained list is truncated: best_deals is its first 25 entries
\* (all of them when there are fewer), so no accepted spread left out of
\* best_deals has a higher PoP than one kept; the loose and the strict list
\* keep every accepted spread of their delta band, and the document reports
\* their full lengths.
C3_SortedAndBestDealsTruncated ==
    /\ ListsSorted =>
          /\ Sorted(all_spreads_no_delta)
          /\ Sorted(all_spreads_loose_delta)
          /\ Sorted(all_spreads_strict_delta)
          /\ Len(all_spreads_loose_delta) =
                Len(SelectSeq(all_spreads_no_delta,
                              LAMBDA s : Abs(s.spread_delta) <= 5000))
          /\ Len(all_spreads_strict_delta) =
                Len(SelectSeq(all_spreads_no_delta,
                              LAMBDA s : Abs(s.spread_delta) <= 2000))
    /\ pc = "done" =>
          LET best == result[1].best_deals
              n    == Len(all_spreads_no_delta)
          IN  /\ Len(best) = IF n > 25 THEN 25 ELSE n
              /\ \A k \in 1..Len(best) : best[k] = all_spreads_no_delta[k]
              /\ \A k \in (Len(best) + 1)..n : \A b \in Range(best) :
                    all_spreads_no_delta[k].probability_of_profit
                       <= b.probability_of_profit
              /\ result[1].delta_analysis.loose_delta_filter
                    = Len(all_spreads_loose_delta)
              /\ result[1].delta_analysis.strict_delta_filter
                    = Len(all_spreads_strict_delta)

\* C3 witness: a finished run with more than 25 accepted spreads, all of
\* them in the loose list, and 25 in best_deals.
C3_Witness ==
    /\ pc = "done"
    /\ Len(all_spreads_loose_delta) > 25
    /\ Len(result[1].best_deals) = 25

\* C4 as stated: every adjacent-strike candidate with its four lookups,
\* credit > 0, maxRisk > 0, roi > 10 and PoP > 66 is in the unconstrained
\* list once the loops are over.
C4_EveryPassingCandidateAccepted ==
    LoopDone =>
        \A x \in Candidates :
            PassesSpecFilter(options_data[x[1]].current_stock_price,
                             ShortOf(x), LongOf(x))
            => InNoDeltaList(x[1], ShortOf(x), LongOf(x))

\* the records of the pair and of its lookups hold every key the loop
\* reads of them
PairReadable(short, long) ==
    /\ Has(short, "streamer_symbol")
    /\ Has(long, "streamer_symbol")
    /\ Has(short, "days_until_expires")
    /\ FourLookups(short, long)
    /\ Has(greek_lookup[short.streamer_symbol], "implied_volatility")
    /\ Has(greek_lookup[long.streamer_symbol], "implied_volatility")
    /\ Has(price_lookup[short.streamer_symbol], "what_buyers_pay")
    /\ Has(price_lookup[long.streamer_symbol], "what_sellers_want")

\* the conditions the code adds: width <= 5, days_until_expires > 0 on the
\* short leg, short bid > 0 and long ask > 0
PassesCodeFilter(spot, short, long) ==
    /\ PairReadable(short, long)
    /\ PassesSpecFilter(spot, short, long)
    /\ WidthOf(short, long) <= 500
    /\ short.days_until_expires > 0
    /\ BidOf(short) > 0
    /\ AskOf(long) > 0

\* C4 as amended: every adjacent-strike candidate of width <= 5 whose short
\* leg has days_until_expires > 0, with its four lookups, short bid > 0,
\* long ask > 0, credit > 0, maxRisk > 0, roi > 10 and PoP > 66 is appended
\* to the unconstrained list; the list holds one spread per such candidate.
C4_EveryCodePassingCandidateAccepted ==
    LoopDone =>
        /\ \A x \in Candidates :
              PassesCodeFilter(options_data[x[1]].current_stock_price,
                               ShortOf(x), LongOf(x))
              => InNoDeltaList(x[1], ShortOf(x), LongOf(x))
        /\ Len(all_spreads_no_delta) =
              Cardinality({ x \in Candidates :
                  PassesCodeFilter(options_data[x[1]].current_stock_price,
                                   ShortOf(x), LongOf(x)) })

\* C4 witness: the spec's example (bid 1.50, ask 0.60, width 3: credit 0.90,
\* maxRisk 2.10, roi 42.86) is written to best_deals.
C4_Witness ==
    /\ pc = "done"
    /\ \E s \in Range(result[1].best_deals) :
          /\ s.long_strike - s.short_strike = 300
          /\ s.credit_collected = 90
          /\ s.max_risk = 210
          /\ s.roi_percent = 4286

\* C5: a candidate with credit <= 0 or maxRisk <= 0 is never accepted, and
\* every spread in a list has credit_collected > 0, max_risk > 0 and
\* credit_collected below its strike width.
C5_CreditAndRiskPositive ==
    /\ \A s \in Listed :
          /\ s.credit_collected > 0
          /\ s.max_risk > 0
          /\ s.credit_collected < s.long_strike - s.short_strike
    /\ \A e \in Range(trail) :
          e.stage = "accepted" =>
              /\ CreditOf(e.short_call, e.long_call) > 0
              /\ RiskOf(e.short_call, e.long_call) > 0

\* C5 witness: a finished run that priced a pair with credit > 0 and
\* maxRisk <= 0 and one that stopped a pair with credit <= 0.
C5_Witness ==
    /\ pc = "done"
    /\ \E e \in Range(trail) :
          /\ e.stage = "filter"
          /\ CreditOf(e.short_call, e.long_call) > 0
          /\ RiskOf(e.short_call, e.long_call) <= 0
    /\ \E e \in Range(trail) : e.stage = "credit"

\* C6 as stated: no pair taken by the loop has short.strike >= long.strike.
C6_ShortStrikeBelowLong ==
    \A e \in Range(trail) : e.short_call.strike_price < e.long_call.strike_price

\* C7: a pair wider than 5 is skipped at the width check and nothing else
\* happens to it, a pair of width 5 or less is not skipped there, and every
\* spread in a list has long_strike - short_strike <= 5.
C7_WidthBound ==
    /\ \A e \in Range(trail) :
          WidthOf(e.short_call, e.long_call) > 500 <=> e.stage = "width"
    /\ Len(delta_stats.deltas_seen) =
          Cardinality({ k \in DOMAIN trail : Priced(trail[k]) })
    /\ \A s \in Listed : s.long_strike - s.short_strike <= 500

\* C7 witness: a finished run that skipped a pair wider than 5 and accepted
\* a pair of width exactly 5.
C7_Witness ==
    /\ pc = "done"
    /\ \E e \in Range(trail) :
          WidthOf(e.short_call, e.long_call) > 500 /\ e.stage = "width"
    /\ \E e \in Range(trail) :
          WidthOf(e.short_call, e.long_call) = 500 /\ e.stage = "accepted"

\* the contracts of the expiration a trail entry belongs to
ChainOf(e) == options_data[e.ci].expiration_dates[e.ei].contracts

SpotOf(e) == options_data[e.ci].current_stock_price

\* the CALL contracts of a chain with strike strictly above spot
OtmCalls(chain, spot) ==
    { p \in DOMAIN chain :
        /\ "contract_type" \in DOMAIN chain[p]
        /\ chain[p].contract_type = "CALL"
        /\ "strike_price" \in DOMAIN chain[p]
        /\ chain[p].strike_price > spot }

\* C8: per company and expiration with n calls strictly above spot the loop
\* takes at most n-1 pairs; both legs of a pair are such calls of that
\* expiration, short below or level with long, with no such call strictly
\* between their strikes.
C8_AdjacentOtmCallsOnly ==
    /\ \A e \in Range(trail) :
          LET chain == ChainOf(e)
              otm   == OtmCalls(chain, SpotOf(e))
          IN  /\ \E p, q \in otm :
                    p # q /\ chain[p] = e.short_call /\ chain[q] = e.long_call
              /\ e.short_call.strike_price <= e.long_call.strike_price
              /\ \A p \in otm :
                    ~(/\ e.short_call.strike_price < chain[p].strike_price
                      /\ chain[p].strike_price < e.long_call.strike_price)
    /\ \A c \in DOMAIN options_data :
          \A x \in DOMAIN options_data[c].expiration_dates :
              LET n == Cardinality(
                           OtmCalls(options_data[c].expiration_dates[x].contracts,
                                    options_data[c].current_stock_price))
                  taken == Cardinality({ k \in DOMAIN trail :
                                           trail[k].ci = c /\ trail[k].ei = x })
              IN  taken <= IF n = 0 THEN 0 ELSE n - 1

\* C8 witness: the loops are over a chain of three contracts, one of them a
\* PUT or a call at or below spot, whose only pair was dropped at the width
\* check.
C8_Witness ==
    /\ LoopDone
    /\ \E e \in Range(trail) :
          /\ e.stage = "width"
          /\ Len(ChainOf(e)) = 3
          /\ Cardinality(OtmCalls(ChainOf(e), SpotOf(e))) = 2

\* C9 as stated: when a pair is skipped for a missing lookup the run does
\* not raise, and every pair that passes the checks of the code is still in
\* the unconstrained list.
C9_MissingLookupNeverFailsRun ==
    (\E e \in Range(trail) : e.stage = "join") =>
        /\ pc # "ValueError"
        /\ LoopDone =>
              \A x \in Candidates :
                  PassesCodeFilter(options_data[x[1]].current_stock_price,
                                   ShortOf(x), LongOf(x))
                  => InNoDeltaList(x[1], ShortOf(x), LongOf(x))

\* C10 as stated: when no pair survives the join and credit checks the run
\* does not raise and the document has total_opportunities = 0 and an empty
\* best_deals.
C10_EmptyRunCompletes ==
    (LoopDone /\ \A e \in Range(trail) : ~Priced(e)) =>
        /\ pc # "ValueError"
        /\ pc = "done" =>
              /\ result[1].total_opportunities = 0
              /\ result[1].best_deals = << >>

\* C11 as stated: no run ends in an exception raised for a record that lacks
\* a key, and a run that fails at the load had an input file missing.
C11_MalformedRecordNeverRaises ==
    /\ pc # "KeyError"
    /\ pc = "FileNotFoundError" => files # FileNames

\* C12 as stated: the document of a second run on the same input files is
\* the document of the first run.
C12_RerunWritesSameDocument ==
    (pc = "done" /\ previous # << >>) => result = previous

\* the pairs of this run that were accepted
Accepted == { e \in Range(trail) : e.stage = "accepted" }

\* a spread of the unconstrained list made from the pair of trail entry e
SpreadsOf(e) ==
    { s \in Range(all_spreads_no_delta) :
        /\ s.company = options_data[e.ci].company
        /\ s.short_strike = e.short_call.strike_price
        /\ s.long_strike = e.long_call.strike_price
        /\ s.days_to_expiration = e.short_call.days_until_expires }

\* roi is credit / risk * 100, to the nearest hundredth of a percent
IsRoiOf(roi, credit, risk) == 2 * Abs(roi * risk - credit * 100 * 100) <= risk

\* C13: every emitted spread has credit_collected = short.bid - long.ask,
\* max_risk = (long_strike - short_strike) - credit_collected and
\* roi_percent = credit_collected / max_risk * 100.
C13_SpreadMetrics ==
    /\ \A s \in Listed :
          /\ s.max_risk = (s.long_strike - s.short_strike) - s.credit_collected
          /\ IsRoiOf(s.roi_percent, s.credit_collected, s.max_risk)
    /\ \A e \in Accepted :
          \E s \in SpreadsOf(e) :
              s.credit_collected =
                  price_lookup[e.short_call.streamer_symbol].what_buyers_pay
                  - price_lookup[e.long_call.streamer_symbol].what_sellers_want
    /\ Len(all_spreads_no_delta) =
          Cardinality({ k \in DOMAIN trail : trail[k].stage = "accepted" })

\* C13 witness: the two examples of the spec are in best_deals: credit 2 on
\* width 5 with max_risk 3 and roi 66.67, and credit 0.90 on width 3 with
\* max_risk 2.10 and roi 42.86.
C13_Witness ==
    /\ pc = "done"
    /\ \E s \in Range(result[1].best_deals) :
          /\ s.long_strike - s.short_strike = 500
          /\ s.credit_collected = 200
          /\ s.max_risk = 300
          /\ s.roi_percent = 6667
    /\ \E s \in Range(result[1].best_deals) :
          /\ s.long_strike - s.short_strike = 300
          /\ s.credit_collected = 90
          /\ s.max_risk = 210
          /\ s.roi_percent = 4286

\* the delta of a call leg, as calculate_greeks returns it
LegDelta(e, leg) ==
    calculate_greeks(SpotOf(e), leg.strike_price,
                     TimeToExp(e.short_call.days_until_expires), 500,
                     greek_lookup[leg.streamer_symbol].implied_volatility,
                     "call").delta

\* C14: every emitted spread has one delta_interpretation: 'Neutral' iff
\* -0.2 <= spread_delta <= 0.2, 'Bullish' iff spread_delta > 0.2, 'Bearish'
\* iff spread_delta < -0.2, where spread_delta is the short leg's delta
\* minus the long leg's.
C14_DeltaInterpretation ==
    /\ \A s \in Listed :
          /\ s.delta_interpretation \in { "Neutral", "Bullish", "Bearish" }
          /\ s.delta_interpretation = "Neutral"
                <=> (-2000 <= s.spread_delta /\ s.spread_delta <= 2000)
          /\ s.delta_interpretation = "Bullish" <=> s.spread_delta > 2000
          /\ s.delta_interpretation = "Bearish" <=> s.spread_delta < -2000
    /\ \A e \in Accepted :
          \E s \in SpreadsOf(e) :
              s.spread_delta = LegDelta(e, e.short_call) - LegDelta(e, e.long_call)

\* C14 witness: best_deals holds a spread at spread_delta = 0.2 and one at
\* -0.2, both 'Neutral'.
C14_Witness ==
    /\ pc = "done"
    /\ \E s \in Range(result[1].best_deals) :
          s.spread_delta = 2000 /\ s.delta_interpretation = "Neutral"
    /\ \E s \in Range(result[1].best_deals) :
          s.spread_delta = -2000 /\ s.delta_interpretation = "Neutral"

\* two spreads agree on spot, short strike, days to expiration and average IV
SamePopInputs(s1, s2) ==
    /\ s1.current_stock_price = s2.current_stock_price
    /\ s1.short_strike = s2.short_strike
    /\ s1.days_to_expiration = s2.days_to_expiration
    /\ s1.avg_implied_volatility = s2.avg_implied_volatility

\* C15: the PoP of a candidate is probability_otm for a CALL at spot, the
\* short strike, T = days / 365 and the mean of the two IVs, times 100; two
\* spreads that agree on these four have the same PoP whatever the long leg.
C15_PopFromShortLeg ==
    /\ \A s1, s2 \in Listed :
          SamePopInputs(s1, s2)
          => s1.probability_of_profit = s2.probability_of_profit
    /\ \A e \in Accepted :
          \E s \in SpreadsOf(e) :
              /\ Abs(2 * s.avg_implied_volatility
                     - (greek_lookup[e.short_call.streamer_symbol].implied_volatility
                        + greek_lookup[e.long_call.streamer_symbol].implied_volatility))
                    <= 1
              /\ s.probability_of_profit =
                    Rdiv(probability_otm(SpotOf(e), e.short_call.strike_price,
                                         Rdiv(e.short_call.days_until_expires * ONE, 365),
                                         s.avg_implied_volatility, "call") * 100 * 100,
                         ONE)

\* C15 witness: best_deals holds two spreads with the same spot, short
\* strike, days and average IV whose long legs differ in strike and in
\* credit (so in bid or ask), and a spread whose two IVs differ.
C15_Witness ==
    /\ pc = "done"
    /\ \E s1, s2 \in Range(result[1].best_deals) :
          /\ SamePopInputs(s1, s2)
          /\ s1.long_strike # s2.long_strike
          /\ s1.credit_collected # s2.credit_collected
    /\ \E e \in Accepted :
          greek_lookup[e.short_call.streamer_symbol].implied_volatility
             # greek_lookup[e.long_call.streamer_symbol].implied_volatility

\* ------------------------------------------------------------------------
\* Properties of the calculator
\* ------------------------------------------------------------------------

\* the method has returned
Returned(method) == bs_call.method = method /\ bs_return # << >>

\* the call takes the fallback branch of its method
Degenerate == bs_call.T <= 0 \/ bs_call.sigma <= 0

\* C16 as stated: with T <= 0 or sigma <= 0 the price is max(S-K, 0) when a
\* CALL is priced and max(K-S, 0) when a PUT is priced.
C16_IntrinsicForCallAndPut ==
    (Returned("black_scholes_call") /\ Degenerate) =>
        bs_return[1] =
            IF bs_call.option_type = "call"
            THEN (IF bs_call.S > bs_call.K THEN bs_call.S - bs_call.K ELSE 0)
            ELSE (IF bs_call.K > bs_call.S THEN bs_call.K - bs_call.S ELSE 0)

\* C16 as amended: black_scholes_call, the only price operation, takes no
\* option type; with T <= 0 or sigma <= 0 it returns max(S-K, 0) for every
\* S, K > 0 and every r, also when the option to price is a PUT.
C16_IntrinsicOfCall ==
    (Returned("black_scholes_call") /\ Degenerate) =>
        bs_return[1] = IF bs_call.S > bs_call.K THEN bs_call.S - bs_call.K ELSE 0

\* C16 witness: a call with T > 0 and sigma <= 0 on an in-the-money strike
\* has returned S - K, while a PUT was to be priced.
C16_Witness ==
    /\ Returned("black_scholes_call")
    /\ bs_call.T > 0
    /\ bs_call.sigma <= 0
    /\ bs_call.option_type = "put"
    /\ bs_call.S > bs_call.K
    /\ bs_return[1] = bs_call.S - bs_call.K

\* C17: with T <= 0 or sigma <= 0 probability_otm returns 1.0 when the
\* option is out of the money now (CALL: S < K, PUT: S > K) and 0.0
\* otherwise, S = K included.
C17_DegenerateProbability ==
    (Returned("probability_otm") /\ Degenerate) =>
        /\ bs_return[1] \in { 0, ONE }
        /\ bs_return[1] = ONE
              <=> \/ bs_call.option_type = "call" /\ bs_call.S < bs_call.K
                  \/ bs_call.option_type = "put" /\ bs_call.S > bs_call.K

\* C17 witness: probability_otm has returned 0.0 at the money with T > 0 and
\* sigma <= 0.
C17_Witness ==
    /\ Returned("probability_otm")
    /\ bs_call.T > 0
    /\ bs_call.sigma <= 0
    /\ bs_call.S = bs_call.K
    /\ bs_return[1] = 0

\* C18: with sigma > 0 and T > 0 the delta of calculate_greeks is in [0, 1]
\* for a CALL and in [-1, 0] for a PUT, and the deltas of two calls differ
\* by at most 1.
C18_DeltaRange ==
    (Returned("calculate_greeks") /\ ~Degenerate) =>
        /\ bs_call.option_type = "call" =>
              /\ 0 <= bs_return[1].delta /\ bs_return[1].delta <= ONE
              /\ \A K2 \in StrikePrices :
                    Abs(bs_return[1].delta
                        - calculate_greeks(bs_call.S, K2, bs_call.T, bs_call.r,
                                           bs_call.sigma, "call").delta) <= ONE
        /\ bs_call.option_type = "put" =>
              -ONE <= bs_return[1].delta /\ bs_return[1].delta <= 0

\* C18 witness: calculate_greeks has returned a PUT delta strictly between
\* -1 and 0.
C18_Witness ==
    /\ Returned("calculate_greeks")
    /\ ~Degenerate
    /\ bs_call.option_type = "put"
    /\ -ONE < bs_return[1].delta
    /\ bs_return[1].delta < 0

\* C19: with T > 0 and sigma > 0, probability_otm of a CALL lies in [0, 1]
\* and does not decrease when the strike is raised, S, T and sigma fixed.
C19_MonotoneInStrike ==
    (Returned("probability_otm") /\ ~Degenerate /\ bs_call.option_type = "call") =>
        /\ 0 <= bs_return[1] /\ bs_return[1] <= ONE
        /\ \A K2 \in StrikePrices :
              bs_call.K <= K2 =>
                  bs_return[1] <= probability_otm(bs_call.S, K2, bs_call.T,
                                                  bs_call.sigma, "call")

\* C19 witness: probability_otm of a CALL has returned a value strictly
\* between 0 and 1, and a higher strike has a strictly higher value.
C19_Witness ==
    /\ Returned("probability_otm")
    /\ ~Degenerate
    /\ bs_call.option_type = "call"
    /\ 0 < bs_return[1]
    /\ \E K2 \in StrikePrices :
          /\ bs_call.K < K2
          /\ bs_return[1] < probability_otm(bs_call.S, K2, bs_call.T,
                                            bs_call.sigma, "call")

\* ------------------------------------------------------------------------
\* Properties of the providers
\* ------------------------------------------------------------------------

\* the call ended by returning an object of the class, made for its symbol
ReturnedA(o, class) ==
    /\ o.kind = "return"
    /\ o.class = class
    /\ o.value # << >>
    /\ o.value[1].symbol = Upper(o.symbol)

\* the call ended by raising one of the exceptions
RaisedOneOf(o, exceptions) == o.kind = "raise" /\ o.class \in exceptions

TastyTradeEnds(method) ==
    /\ provider = "TastyTradeProvider"
    /\ Len(outcome') = Len(outcome) + 1
    /\ outcome'[Len(outcome')].method = method

\* C21: a call of TastyTradeProvider.get_historical_data ends by raising
\* NotSupportedError, whatever the symbol, period, timeframe and state of
\* the provider; it attempts no connection and the step that ends it
\* leaves session and _connected as they were.
C21_HistoricalDataNotSupported ==
    [][ TastyTradeEnds("get_historical_data") =>
           /\ RaisedOneOf(outcome'[Len(outcome')], { "NotSupportedError" })
           /\ outcome'[Len(outcome')].connect = "not tried"
           /\ session' = session
           /\ _connected' = _connected ]_vars

\* C21 witness: a TastyTradeProvider that was connected by an earlier
\* get_quote has raised NotSupportedError from get_historical_data and is
\* still connected.
C21_Witness ==
    /\ provider = "TastyTradeProvider"
    /\ Len(outcome) = 2
    /\ outcome[1].method = "get_quote"
    /\ outcome[1].connect = "connected"
    /\ outcome[2].method = "get_historical_data"
    /\ RaisedOneOf(outcome[2], { "NotSupportedError" })
    /\ session = "Session"
    /\ _connected

\* the exit paths of _get_quote_event_driven after market data was
\* requested
ExitPaths == { "quote", "error", "no data", "timeout" }

\* C22: a call that left _get_quote_event_driven on one of its exit paths
\* after the request (quote returned, ticker-processing error, no valid
\* data, timeout) has called cancelMktData in its finally block; a thread
\* that is in no call has no handler subscribed, and market data is
\* requested only for the symbol of a call that is between its request
\* and its finally block.
C22_CleanupOnEveryExit ==
    /\ \A k \in DOMAIN outcome :
          outcome[k].exit \in ExitPaths =>
              outcome[k].cleanup \in { "cancelMktData", "cancelMktData raised" }
    /\ \A t \in Threads : frame[t].method = "none" => t \notin ib.handlers
    /\ \A symbol \in ib.mktData :
          \E t \in Threads :
             /\ frame[t].method = "get_quote"
             /\ frame[t].symbol = symbol
             /\ frame[t].at \in { "wait", "finally" }

\* C22 witness: one call has returned a Quote and another one has timed
\* out, and neither a handler nor a request is left.
C22_Witness ==
    /\ \E k \in DOMAIN outcome :
          outcome[k].exit = "quote" /\ ReturnedA(outcome[k], "Quote")
    /\ \E k \in DOMAIN outcome : outcome[k].exit = "timeout"
    /\ \A t \in Threads : frame[t].method = "none"
    /\ ib.handlers = {}
    /\ ib.mktData = {}

\* thread t waits for market data before and after this step and the
\* step is an update whose ticker carries no valid price data
InvalidUpdate(t) ==
    /\ At(t, "wait")
    /\ frame'[t].method # "none"
    /\ frame'[t].at = "wait"
    /\ frame'[t] # frame[t]
    /\ frame'[t].last_update = "invalid"

\* a finished get_quote of the IBKRProvider
IbkrQuoteCall(o) == provider = "IBKRProvider" /\ o.method = "get_quote"

\* C23: IBKRProvider.get_quote returns only after a ticker update with
\* valid price data (last > 0, or else bid > 0 and ask > 0) and the Quote
\* it returns has price > 0; a call that reached the timeout saw no valid
\* update and raises QuoteError, as does every call that saw none; an
\* update without valid prices changes neither quote_received nor
\* received_quote nor error_msg.
C23_QuoteOnlyOnValidPrices ==
    /\ [](\A k \in DOMAIN outcome :
             IbkrQuoteCall(outcome[k]) =>
                /\ outcome[k].kind = "return" =>
                      /\ outcome[k].valid_updates
                      /\ outcome[k].exit = "quote"
                      /\ outcome[k].value[1].price.is = "num"
                      /\ outcome[k].value[1].price.v > 0
                /\ outcome[k].exit = "timeout" =>
                      /\ ~ outcome[k].valid_updates
                      /\ RaisedOneOf(outcome[k], { "QuoteError" })
                /\ (~ outcome[k].valid_updates /\ outcome[k].connect # "failed") =>
                      RaisedOneOf(outcome[k], { "QuoteError" }))
    /\ [][ \A t \in Threads :
              InvalidUpdate(t) =>
                 /\ frame'[t].quote_received = frame[t].quote_received
                 /\ frame'[t].received_quote = frame[t].received_quote
                 /\ frame'[t].error_msg = frame[t].error_msg ]_vars

\* C23 witness: the provider has returned a Quote after a valid update,
\* and in its next call an update without valid prices has come and the
\* call still waits.
C23_Witness ==
    /\ provider = "IBKRProvider"
    /\ Len(outcome) = 1
    /\ ReturnedA(outcome[1], "Quote")
    /\ outcome[1].valid_updates
    /\ \E t \in Threads :
          /\ At(t, "wait")
          /\ frame[t].last_update = "invalid"
          /\ ~ frame[t].valid_updates
          /\ ~ frame[t].quote_received

\* ------------------------------------------------------------------------
\* Properties of run_complete_analysis
\* ------------------------------------------------------------------------

\* every script that has ended exited with return code 0
AllSucceeded == \A k \in DOMAIN master.exits : Succeeded(master.exits[k])

\* C24: the scripts started are the first scripts of the list, in its
\* order; a script is started only after the one before it exited with
\* return code 0; a script that exits non-zero, exceeds the timeout or
\* raises is the last one started and False is returned; True is returned
\* only after all five exited with 0, and then it is returned whether the
\* final summary could be loaded or not.
C24_StepsInOrderUntilFirstFailure ==
    master.at # "idle" =>
        /\ Len(master.started) <= Len(Steps)
        /\ master.started = SubSeq(Steps, 1, Len(master.started))
        /\ Len(master.exits) <= Len(master.started)
        /\ Len(master.started) <= Len(master.exits) + 1
        /\ \A k \in DOMAIN master.started :
              k > 1 => Succeeded(master.exits[k - 1])
        /\ \A k \in DOMAIN master.exits :
              ~ Succeeded(master.exits[k]) =>
                 /\ k = Len(master.started)
                 /\ master.at = "returned"
                 /\ master.returned = << FALSE >>
        /\ master.returned = << TRUE >> =>
              Len(master.exits) = Len(Steps) /\ AllSucceeded
        /\ (master.at = "returned" /\ Len(master.exits) = Len(Steps) /\ AllSucceeded)
              => master.returned = << TRUE >>

\* C24 witness: all five scripts exited with 0, the final summary could
\* not be loaded and True was returned.
C24_Witness ==
    /\ master.at = "returned"
    /\ master.started = Steps
    /\ AllSucceeded
    /\ master.summary = "could not load"
    /\ master.returned = << TRUE >>

\* ------------------------------------------------------------------------
\* Properties of get_multiple_quotes_optimized
\* ------------------------------------------------------------------------

\* the records of the calls of get_multiple_quotes_optimized that ended
MultipleEnded ==
    { k \in DOMAIN outcome : outcome[k].method = "get_multiple_quotes_optimized" }

\* the records of the get_quote calls the workers made for the symbol
WorkerCalls(symbol) ==
    { k \in DOMAIN outcome :
         outcome[k].thread \in Workers /\ outcome[k].symbol = symbol }

\* what the entry of a symbol holds after this get_quote: the Quote it
\* returned, None (<< >>) when it raised QuoteError or ConnectionError
EntryOf(o) == IF o.kind = "return" THEN o.value ELSE << >>

\* C25: a call of get_multiple_quotes_optimized that ends after
\* as_completed yielded every worker returns a dict whose keys are the
\* requested symbols; the entry of a symbol is the Quote its get_quote
\* returned, or None if it raised, whatever the get_quote of the other
\* symbol did; nothing a worker raised leaves the call (it raises only
\* the TimeoutError of as_completed, while a worker still runs).
C25_OneEntryPerSymbol ==
    \A m \in MultipleEnded :
        LET o == outcome[m]
            requested == { o.symbols[k] : k \in DOMAIN o.symbols }
        IN  /\ o.kind = "return" =>
                  /\ \A w \in Futures(o.symbols) : CallOf(w) # << >>
                  /\ DOMAIN o.value[1] = requested
                  /\ \A s \in requested :
                        \E k \in WorkerCalls(s) :
                           o.value[1][s] = EntryOf(outcome[k])
            /\ o.kind = "raise" => o.class = "TimeoutError"

\* C25 witness: two symbols were requested, the get_quote of one raised
\* and that of the other returned a Quote, and the dict returned holds
\* None for the first and the Quote for the second.
C25_Witness ==
    \E m \in MultipleEnded :
        /\ outcome[m].kind = "return"
        /\ outcome[m].symbols = << "AAPL", "msft" >>
        /\ CallOf("w1") # << >>
        /\ CallOf("w1")[1].kind = "raise"
        /\ outcome[m].value[1]["AAPL"] = << >>
        /\ CallOf("w2") # << >>
        /\ CallOf("w2")[1].kind = "return"
        /\ outcome[m].value[1]["msft"] = CallOf("w2")[1].value
        /\ outcome[m].value[1]["msft"] # << >>


\* the workers that found the provider not connected at line 42 of
\* _ensure_connected and have not yet come back from ib.connect
Connecting == { w \in Workers : At(w, "connect") }

\* C27: the get_quote calls of the workers of one
\* get_multiple_quotes_optimized never have two workers at once between
\* the test 'not self._connected or not self.ib.isConnected()' and the
\* end of ib.connect: two workers never both observe 'not connected' and
\* both connect with the same client id.
C27_AtMostOneConnect == Cardinality(Connecting) <= 1


\* ------------------------------------------------------------------------
\* Properties of the delta statistics and of the result document
\* ------------------------------------------------------------------------

\* how many of the deltas recorded at the Greeks step lie in a band
SeenIn(Band(_)) ==
    Cardinality({ k \in DOMAIN delta_stats.deltas_seen :
                     Band(delta_stats.deltas_seen[k]) })

\* the bands the summary prints for the counters (find_tendies.py:246-249)
LabelledNegative(spread_delta) == spread_delta < -NegativeDelta
LabelledPositive(spread_delta) == spread_delta > StrictDelta

\* C26: over the candidates that reached the Greeks step, neutral_deltas
\* is the number with -0.2 <= spread_delta <= 0.2, positive_deltas the
\* number with spread_delta > 0.2 and negative_deltas the number with
\* spread_delta < -0.1.
C26_CountersMatchLabels ==
    /\ delta_stats.neutral_deltas = SeenIn(InStrictBand)
    /\ delta_stats.positive_deltas = SeenIn(LabelledPositive)
    /\ delta_stats.negative_deltas = SeenIn(LabelledNegative)


\* C28: in the result document total_opportunities equals
\* delta_analysis.no_delta_filter and is the number of accepted spreads,
\* before any truncation; loose_delta_filter and strict_delta_filter are
\* the lengths of the untruncated loose and strict lists; best_deals is
\* the first min(25, total_opportunities) entries of the PoP-sorted
\* unconstrained list, so it is never longer than total_opportunities.
C28_CountsUntruncated ==
    pc = "done" =>
        LET doc == result[1]
            kept == IF doc.total_opportunities < 25
                    THEN doc.total_opportunities ELSE 25
        IN  /\ doc.total_opportunities = doc.delta_analysis.no_delta_filter
            /\ doc.total_opportunities = Len(all_spreads_no_delta)
            /\ doc.total_opportunities = Cardinality(
                   { k \in DOMAIN trail : trail[k].stage = "accepted" })
            /\ doc.delta_analysis.loose_delta_filter =
                   Len(SelectSeq(all_spreads_no_delta,
                                 LAMBDA s : InLooseBand(s.spread_delta)))
            /\ doc.delta_analysis.strict_delta_filter =
                   Len(SelectSeq(all_spreads_no_delta,
                                 LAMBDA s : InStrictBand(s.spread_delta)))
            /\ Sorted(all_spreads_no_delta)
            /\ doc.best_deals = SubSeq(all_spreads_no_delta, 1, kept)
            /\ Len(doc.best_deals) <= doc.total_opportunities

\* C28 witness: a document that counts more than 25 opportunities, with
\* the same number as no_delta_filter, and keeps the first 25 of them as
\* best_deals, leaving the 26th spread of the sorted list out.
C28_Witness ==
    /\ pc = "done"
    /\ result[1].total_opportunities > 25
    /\ result[1].delta_analysis.no_delta_filter = Len(all_spreads_no_delta)
    /\ Len(result[1].best_deals) = 25
    /\ result[1].best_deals # all_spreads_no_delta
    /\ result[1].best_deals[25] = all_spreads_no_delta[25]


\* the pairs that came to the test of time_to_exp, and those that came to
\* the test of the two quotes
CameToExpiry == { e \in Range(trail) : e.stage \in { "expired", "quote", "credit", "filter", "accepted" } }
CameToQuotes == { e \in Range(trail) : e.stage \in { "quote", "credit", "filter", "accepted" } }

\* what buyers pay for the short leg and what sellers want for the long leg
ShortBid(e) == price_lookup[e.short_call.streamer_symbol].what_buyers_pay
LongAsk(e) == price_lookup[e.long_call.streamer_symbol].what_sellers_want

\* C29: a pair whose short leg has days_until_expires <= 0 ends at the
\* test of time_to_exp, and a pair with short bid <= 0 or long ask <= 0
\* ends at the test of the quotes, whatever short bid - long ask is; such
\* a pair is not priced, not counted in delta_stats and not emitted: only
\* priced pairs are counted, the pair being priced has time_to_exp > 0,
\* and every spread in a list has days_to_expiration > 0.
C29_ExpiredOrUnquotedDropped ==
    /\ \A e \in CameToExpiry :
          e.short_call.days_until_expires <= 0 <=> e.stage = "expired"
    /\ \A e \in CameToQuotes :
          (ShortBid(e) <= 0 \/ LongAsk(e) <= 0) <=> e.stage = "quote"
    /\ Len(delta_stats.deltas_seen) =
          Cardinality({ k \in DOMAIN trail :
                          /\ trail[k].stage \in { "filter", "accepted" }
                          /\ trail[k].short_call.days_until_expires > 0 })
    /\ PastCredit =>
          /\ time_to_exp > 0
          /\ joined.short_bid > 0
          /\ joined.long_ask > 0
    /\ \A s \in Listed : s.days_to_expiration > 0

\* C29 witness: a run dropped a pair whose short leg expires today and a
\* pair whose long leg has no ask, both with short bid - long ask > 0,
\* and has counted nothing in delta_stats and emitted nothing.
C29_Witness ==
    /\ \E e \in Range(trail) :
          /\ e.stage = "expired"
          /\ e.short_call.days_until_expires = 0
          /\ ShortBid(e) - LongAsk(e) > 0
    /\ \E e \in Range(trail) :
          /\ e.stage = "quote"
          /\ LongAsk(e) = 0
          /\ ShortBid(e) - LongAsk(e) > 0
    /\ delta_stats.deltas_seen = << >>
    /\ all_spreads_no_delta = << >>

=============================================================================
